---- MODULE Spec2Model ----
(***************************************************************************)
(* Monte Carlo engine of the F1 2026 regulation impact simulator.          *)
(*                                                                         *)
(* The engine (src/monte_carlo.py: MonteCarloSimulator.run,                *)
(* _perturb_features, _summarise_predictions) is modelled from the source  *)
(* listings in src/unnamed/part_015.  Positions are fixed-point numbers    *)
(* counted in 1/Unit of a finishing position, feature values in 1/100,     *)
(* statistics are exact rationals <<numerator, denominator>>.              *)
(***************************************************************************)
EXTENDS Integers, Sequences, FiniteSets, TLC

VARIABLES
    model,      \* the fitted predictor held by the simulator (self.model)
    config,     \* the simulator's configuration (self.config)
    call,       \* the MonteCarloSimulator.run invocation in progress
    predictorRaised, \* whether model.predict raised during that invocation
    table,      \* the Feature Table: a sequence of events
    pipe,       \* the batch process: its stage, run number and unit in hand
    results,    \* results[r][<<e, sc>>]: the distributions run r stored for a unit
    calls,      \* the run calls the current batch run has made, per unit
    files,      \* the artifact's temporary and final paths
    entropy,    \* operating-system entropy seen by the current process
    xform,      \* the Scenario Transform invocation in progress
    client,     \* the dashboard's API client: the data call in progress
    movers,     \* the TopMoversTable component: its props and memoised lists
    visualizer, \* the TrackVisualizer component: its state and pending loads
    filters     \* the dashboard's filter store (useFilterStore)

frontend == <<client, movers, visualizer, filters>>
engine == <<model, config, xform, frontend, call, predictorRaised>>
batch == <<table, pipe, results, calls, files, entropy>>
vars == <<model, config, call, predictorRaised,
          table, pipe, results, calls, files, entropy, xform,
          client, movers, visualizer, filters>>

-----------------------------------------------------------------------------
(* Bounds of the model *)

\* positions are counted in 1/Unit of a place
Unit == 2
\* largest number of draws of one run call
MaxSims == 3
\* number of states of the modelled random generator
RngMod == 8

-----------------------------------------------------------------------------
(* Exact rational arithmetic for the statistics *)

Rat(n, d) == <<n, d>>
RLeq(x, y) == x[1] * y[2] <= y[1] * x[2]

RECURSIVE SumSeq(_)
SumSeq(s) == IF s = <<>> THEN 0 ELSE Head(s) + SumSeq(Tail(s))

RECURSIVE SumSq(_)
SumSq(s) == IF s = <<>> THEN 0 ELSE Head(s) * Head(s) + SumSq(Tail(s))

IntLeq(a, b) == a <= b

\* number of entries of s that are <= k
CountLess(s, k) == Cardinality({i \in 1..Len(s) : s[i] < k})
CountLeq(s, k) == Cardinality({i \in 1..Len(s) : s[i] <= k})

-----------------------------------------------------------------------------
(* numpy reductions used by _summarise_predictions.  Each is defined on a  *)
(* non-empty array only; the caller handles the empty case.                *)

NpMean(d) == Rat(SumSeq(d), Len(d))

\* std(ddof=0), represented by its square: the population variance
NpVar(d) == Rat(Len(d) * SumSq(d) - SumSeq(d) * SumSeq(d), Len(d) * Len(d))

NpMin(d) == CHOOSE x \in {d[i] : i \in 1..Len(d)} :
                \A j \in 1..Len(d) : x <= d[j]
NpMax(d) == CHOOSE x \in {d[i] : i \in 1..Len(d)} :
                \A j \in 1..Len(d) : x >= d[j]

\* np.median: middle of the sorted array, mean of the two middles when even
NpMedian(d) ==
    LET a == SortSeq(d, IntLeq)
        n == Len(a)
    IN  IF n % 2 = 1 THEN Rat(a[(n + 1) \div 2], 1)
        ELSE Rat(a[n \div 2] + a[n \div 2 + 1], 2)

\* np.percentile(d, q), default linear interpolation: virtual index
\* q/100 * (n-1) into the sorted array, interpolated between its neighbours
NpPercentileUnsorted(d, q) ==
    LET n  == Len(d)
        h  == q * (n - 1)
        lo == h \div 100
        r  == h % 100
        hi == IF lo + 2 <= n THEN lo + 2 ELSE n
    IN  Rat(d[lo + 1] * 100 + r * (d[hi] - d[lo + 1]), 100)
NpPercentile(d, q) ==
    LET a  == SortSeq(d, IntLeq)
        n  == Len(a)
        h  == q * (n - 1)
        lo == h \div 100
        r  == h % 100
        hi == IF lo + 2 <= n THEN lo + 2 ELSE n
    IN  Rat(a[lo + 1] * 100 + r * (a[hi] - a[lo + 1]), 100)

-----------------------------------------------------------------------------
(* _summarise_predictions *)

Column(predictions, idx) == [i \in 1..Len(predictions) |-> predictions[i][idx]]

\* float((distribution <= k).mean()): the fraction of draws at or below k
TopKProbabilityStrict(distribution, k) ==
    Rat(CountLess(distribution, k), Len(distribution))
TopKProbability(distribution, k) ==
    Rat(CountLeq(distribution, k), Len(distribution))

\* the record built for one driver from its column of the accumulator
DriverStats(distribution) ==
    [ mean             |-> NpMean(distribution),
      std              |-> NpVar(distribution),
      median           |-> NpMedian(distribution),
      min              |-> Rat(NpMin(distribution), 1),
      max              |-> Rat(NpMax(distribution), 1),
      percentile_5     |-> NpPercentile(distribution, 5),
      percentile_95    |-> NpPercentile(distribution, 95),
      top3_probability |-> TopKProbability(distribution, 3 * Unit),
      top5_probability |-> TopKProbability(distribution, 5 * Unit) ]

\* index of the last occurrence of driver d in the list: a repeated name
\* overwrites the earlier dictionary entry
LastIndex(driver_list, d) ==
    CHOOSE i \in 1..Len(driver_list) :
        /\ driver_list[i] = d
        /\ \A j \in (i + 1)..Len(driver_list) : driver_list[j] # d

\* predictions is the (n_sims x ncols) accumulator, as a sequence of rows.
\* predictions[:, idx] raises IndexError past the last column; the first
\* reduction without identity (min) raises ValueError on an empty column.
SummarisePredictions(predictions, ncols, drivers) ==
    IF \E i \in 1..Len(drivers) : i > ncols
      THEN [raised |-> TRUE, error |-> "IndexError", stats |-> <<>>]
    ELSE IF Len(drivers) > 0 /\ Len(predictions) = 0
      THEN [raised |-> TRUE, error |-> "ValueError", stats |-> <<>>]
    ELSE [raised |-> FALSE, error |-> "none",
          stats  |-> [d \in {drivers[i] : i \in 1..Len(drivers)} |->
                        DriverStats(Column(predictions, LastIndex(drivers, d)))]]

-----------------------------------------------------------------------------
(* The feature frame.  A frame is a sequence of rows, a row a sequence of  *)
(* values (in 1/100) aligned with FeatureColumns.  Column names are        *)
(* character sequences so that the substring tests of _perturb_features    *)
(* are computed, not assumed.                                              *)

GridPosition   == <<"g","r","i","d","_","p","o","s","i","t","i","o","n">>
RainProb       == <<"r","a","i","n","_","p","r","o","b","a","b","i","l","i","t","y">>
PitStopsCount  == <<"p","i","t","_","s","t","o","p","s","_","c","o","u","n","t">>
FuelFlowRatio  == <<"f","u","e","l","_","f","l","o","w","_","r","a","t","i","o">>
PowerRatio     == <<"p","o","w","e","r","_","r","a","t","i","o">>
Corners        == <<"c","o","r","n","e","r","s">>
AeroCoeff      == <<"a","e","r","o","_","c","o","e","f","f">>
WeightRatio    == <<"w","e","i","g","h","t","_","r","a","t","i","o">>
TireGripRatio  == <<"t","i","r","e","_","g","r","i","p","_","r","a","t","i","o">>
AvgPosLast5    == <<"a","v","g","_","p","o","s","_","l","a","s","t","5">>

FeatureColumns ==
    <<GridPosition, RainProb, PitStopsCount, FuelFlowRatio, PowerRatio, Corners,
      AeroCoeff, WeightRatio, TireGripRatio, AvgPosLast5>>

ColIndex(name) == CHOOSE i \in 1..Len(FeatureColumns) : FeatureColumns[i] = name

\* Python's `token in col` on strings
Contains(token, col) ==
    \E i \in 1..(Len(col) - Len(token) + 1) :
        SubSeq(col, i, i + Len(token) - 1) = token

IsForm(col)     == Contains(<<"p","o","s">>, col) \/ Contains(<<"g","r","i","d">>, col)
IsWeather(col)  == \/ Contains(<<"r","a","i","n">>, col)
                   \/ Contains(<<"t","e","m","p">>, col)
                   \/ Contains(<<"w","i","n","d">>, col)
IsStrategy(col) == \/ Contains(<<"p","i","t">>, col)
                   \/ Contains(<<"f","u","e","l">>, col)
                   \/ Contains(<<"c","o","m","p","o","u","n","d">>, col)

InGroup(group, col) ==
    CASE group = "form"     -> IsForm(col)
      [] group = "weather"  -> IsWeather(col)
      [] group = "strategy" -> IsStrategy(col)

\* indices of the columns of FeatureColumns in a group, in list order
RECURSIVE SelectCols(_, _)
SelectCols(group, i) ==
    IF i > Len(FeatureColumns) THEN <<>>
    ELSE IF InGroup(group, FeatureColumns[i]) THEN <<i>> \o SelectCols(group, i + 1)
    ELSE SelectCols(group, i + 1)

form_cols     == SelectCols("form", 1)
weather_cols  == SelectCols("weather", 1)
strategy_cols == SelectCols("strategy", 1)

Position(s, x) == CHOOSE i \in 1..Len(s) : s[i] = x
InSeq(s, x) == \E i \in 1..Len(s) : s[i] = x

-----------------------------------------------------------------------------
(* The simulator's generator self._rng: a seeded deterministic stream.     *)
(* The state after k outputs is RngAt(s, k); the k-th output is read from  *)
(* that state.                                                             *)

RngNext(s) == (5 * s + 3) % RngMod

RECURSIVE RngAt(_, _)
RngAt(s, k) == IF k = 0 THEN s ELSE RngAt(RngNext(s), k - 1)

\* one value of rng.normal(0.0, sigma): a multiple of sigma, in 1/100
NormalOfGlobal(st, sigma) == (((st + entropy) % 5) - 2) * sigma
NormalOfShared(st, sigma) ==
    (((st + Cardinality(DOMAIN results[pipe.runNo])) % 5) - 2) * sigma
NormalOf(st, sigma) == ((st % 5) - 2) * sigma
\* one value of rng.integers(-1, 2)
IntegersOf(st) == (st % 3) - 1

-----------------------------------------------------------------------------
(* _perturb_features *)

\* number of generator outputs one call consumes on a frame of L rows
DrawsPerPerturb(L) ==
    (IF Len(form_cols) > 0 THEN L ELSE 0)
        + Len(weather_cols) * L + Len(strategy_cols) * L

\* which output of the call's generator is the form noise of row r in
\* column c: noise[:, None] gives every form column the row's one value
FormNoiseIndexPerColumn(r, c, L) == (Position(form_cols, c) - 1) * L + r
FormNoiseIndex(r, c, L) == r

PerturbFeatures(frame, rng) ==
    LET L        == Len(frame)
        formN    == IF Len(form_cols) > 0 THEN L ELSE 0
        \* after the form block: frame.loc[:, form_cols].mul(1 + noise[:, None])
        f1 == [r \in 1..L |-> [c \in 1..Len(FeatureColumns) |->
                 IF InSeq(form_cols, c)
                 THEN (frame[r][c]
                         * (100 + NormalOf(RngAt(rng, FormNoiseIndex(r, c, L)),
                                           config.driver_form_sigma)))
                       \div 100
                 ELSE frame[r][c]]]
        \* after the weather loop: one noise vector per weather column
        f2 == [r \in 1..L |-> [c \in 1..Len(FeatureColumns) |->
                 IF InSeq(weather_cols, c)
                 THEN (f1[r][c]
                         * (100 + NormalOf(
                               RngAt(rng, formN + (Position(weather_cols, c) - 1) * L + r),
                               config.weather_sigma)))
                       \div 100
                 ELSE f1[r][c]]]
        wN == formN + Len(weather_cols) * L
        \* after the strategy loop: one integer vector per strategy column
        f3 == [r \in 1..L |-> [c \in 1..Len(FeatureColumns) |->
                 IF InSeq(strategy_cols, c)
                 THEN f2[r][c]
                        + IntegersOf(
                              RngAt(rng, wN + (Position(strategy_cols, c) - 1) * L + r))
                          * config.strategy_delta
                 ELSE f2[r][c]]]
    IN  f3

-----------------------------------------------------------------------------
(* The fitted predictor.  The regressor is opaque to the engine; it is     *)
(* modelled by four kinds:                                                 *)
(*   linear - a pure function of the perturbed row                          *)
(*   strict - linear, but raises on a negative pit stop count               *)
(*   oracle - returns any vector of OracleValues, or raises                 *)
(*   stub   - returns the same vector whatever the perturbed frame is       *)

OracleValues == {0, 3 * Unit, 3 * Unit + 1, 21 * Unit}

LinearValue(m, row) ==
    m.bias + (m.wform * row[ColIndex(GridPosition)]
                + m.wstrat * row[ColIndex(PitStopsCount)]
                + m.wreg * row[ColIndex(PowerRatio)]) \div 100

\* the vector of the stub predictor: an entity on the top-3 threshold, one
\* just above it, and one beyond the grid
StubVector == <<3 * Unit, 3 * Unit + 1, 21 * Unit>>

Returned(values) == [raised |-> FALSE, values |-> values]
Raised == [raised |-> TRUE, values |-> <<>>]

\* the set of outcomes model.predict(perturbed) can have
Predict(m, perturbed) ==
    LET L == Len(perturbed)
        linear == Returned([r \in 1..L |-> LinearValue(m, perturbed[r])])
    IN  CASE m.kind = "linear" -> {linear}
          [] m.kind = "strict" ->
                IF \E r \in 1..L : perturbed[r][ColIndex(PitStopsCount)] < 0
                THEN {Raised} ELSE {linear}
          [] m.kind = "oracle" ->
                {Returned(v) : v \in [1..L -> OracleValues]} \cup {Raised}
          [] m.kind = "stub" ->
                {Returned([r \in 1..L |-> StubVector[r]])}

-----------------------------------------------------------------------------
(* MonteCarloSimulator.run *)

\* the n_simulations argument: <<>> is None, <<n>> an explicit integer
None == <<>>

\* n_sims = n_simulations or self.config.n_simulations
\* (Python's `or` takes the right operand when the left is None or 0)
ResolveNSims(n_simulations) ==
    IF n_simulations = None \/ n_simulations[1] = 0
    THEN config.n_simulations
    ELSE n_simulations[1]

\* np.clip(values, 1.0, 20.0)
ClipNoUpper(v) == IF v < 1 * Unit THEN 1 * Unit ELSE v
Clip(v) ==
    IF v < 1 * Unit THEN 1 * Unit
    ELSE IF v > 20 * Unit THEN 20 * Unit
    ELSE v

ClipRow(values) == [i \in 1..Len(values) |-> Clip(values[i])]

\* features[self.feature_columns]: selection of the wanted columns by label,
\* in the order wanted; pandas raises KeyError when a label is absent
SelectColumnsByPosition(columns, rows, wanted) ==
    IF Len(columns) < Len(wanted)
    THEN [raised |-> TRUE, frame |-> <<>>]
    ELSE [raised |-> FALSE,
          frame  |-> [r \in 1..Len(rows) |-> [i \in 1..Len(wanted) |-> rows[r][i]]]]
SelectColumns(columns, rows, wanted) ==
    IF \E i \in 1..Len(wanted) : ~InSeq(columns, wanted[i])
    THEN [raised |-> TRUE, frame |-> <<>>]
    ELSE [raised |-> FALSE,
          frame  |-> [r \in 1..Len(rows) |-> [i \in 1..Len(wanted) |->
                        rows[r][Position(columns, wanted[i])]]]]

\* a run call that has been made and has not started executing.  features
\* is the caller's frame (rows of values under the labels in columns);
\* given_features and given_model record the arguments as they were passed.
NewCall(features, driver_names, n_simulations, rng) ==
    [ phase          |-> "called",
      mode           |-> "raw",
      features       |-> features,
      columns        |-> FeatureColumns,
      given_features |-> features,
      given_model    |-> model,
      driver_names   |-> driver_names,
      n_simulations  |-> n_simulations,
      n_sims         |-> 0,
      feature_matrix |-> <<>>,  \* the engine's copy of the selected columns
      perturbed      |-> <<>>,  \* the frame the last draw handed to predict
      raw            |-> <<>>,  \* the vector the last draw's predict returned
      predictions    |-> <<>>,
      rng            |-> rng,
      drawn          |-> 0,      \* generator outputs consumed so far
      predicted      |-> 0,      \* calls of model.predict so far
      error          |-> "none",
      stats          |-> <<>> ]

NoCall == [NewCall(<<>>, <<>>, None, 0) EXCEPT !.phase = "idle"]

\* lines 87-91: resolve n_sims, select and copy the feature columns, allocate
\* the accumulator; np.zeros raises ValueError on a negative dimension
RunEntry(c) ==
    LET n == ResolveNSims(c.n_simulations)
        selected == SelectColumns(c.columns, c.features, FeatureColumns)
    IN  IF selected.raised
        THEN [c EXCEPT !.phase = "raised", !.error = "KeyError"]
        ELSE IF n < 0
        THEN [c EXCEPT !.phase = "raised", !.error = "ValueError"]
        ELSE [c EXCEPT !.phase = "loop", !.n_sims = n,
                       !.feature_matrix = selected.frame]

\* line 94: _perturb_features works in place on the frame it is given, and it
\* is given feature_matrix.copy(); the engine's own frame after the draw
MatrixAfterDrawInPlace(matrix, perturbed) == perturbed
MatrixAfterDraw(matrix, perturbed) == matrix

\* lines 93-95, one iteration with the given outcome of model.predict:
\* an exception of the predictor propagates out of run
DrawStepFallback(c, outcome) ==
    LET L == Len(c.feature_matrix)
        perturbed == PerturbFeatures(c.feature_matrix, c.rng)
        row == IF outcome.raised THEN [i \in 1..L |-> 20 * Unit]
               ELSE ClipRow(outcome.values)
    IN  [c EXCEPT !.rng = RngAt(c.rng, DrawsPerPerturb(L)),
                  !.drawn = @ + DrawsPerPerturb(L),
                  !.predicted = @ + 1,
                  !.perturbed = perturbed,
                  !.feature_matrix = MatrixAfterDraw(@, perturbed),
                  !.raw = outcome.values,
                  !.predictions = Append(@, row)]
DrawStep(c, outcome) ==
    LET L == Len(c.feature_matrix)
        perturbed == PerturbFeatures(c.feature_matrix, c.rng)
        advanced == [c EXCEPT !.rng = RngAt(c.rng, DrawsPerPerturb(L)),
                              !.drawn = @ + DrawsPerPerturb(L),
                              !.predicted = @ + 1,
                              !.perturbed = perturbed,
                              !.feature_matrix = MatrixAfterDraw(@, perturbed),
                              !.raw = outcome.values]
    IN  IF outcome.raised
        THEN [advanced EXCEPT !.phase = "raised", !.error = "PredictError"]
        ELSE [advanced EXCEPT !.predictions = Append(@, ClipRow(outcome.values))]

\* np.argsort(values): an index order that sorts the values ascending.  The
\* default sort kind is not stable: equal values come in either order.
ArgSorts(values) ==
    LET L == Len(values)
    IN  {p \in [1..L -> 1..L] :
            /\ \A i, j \in 1..L : i # j => p[i] # p[j]
            /\ \A i \in 1..(L - 1) : values[p[i]] <= values[p[i + 1]]}

\* the ranked variant of the loop body (listed as the proposed Option A):
\* ranks[np.argsort(raw_predictions)] = np.arange(1, n + 1), stored unclipped
RankedDrawStep(c, outcome, order) ==
    LET advanced == DrawStep(c, outcome)
        ranks == [j \in 1..Len(order) |-> Position(order, j) * Unit]
    IN  IF outcome.raised THEN advanced
        ELSE [advanced EXCEPT !.predictions = Append(c.predictions, ranks)]

\* line 97: return _summarise_predictions(predictions, driver_array)
RunExit(c) ==
    LET s == SummarisePredictions(c.predictions, Len(c.features), c.driver_names)
    IN  IF s.raised
        THEN [c EXCEPT !.phase = "raised", !.error = s.error]
        ELSE [c EXCEPT !.phase = "returned", !.stats = s.stats]

RunStart ==
    /\ call.phase = "called"
    /\ call' = RunEntry(call)
    /\ UNCHANGED <<model, config, xform, frontend, predictorRaised>>
    /\ UNCHANGED batch

RunDraw ==
    /\ call.phase = "loop"
    /\ Len(call.predictions) < call.n_sims
    /\ \E outcome \in Predict(model, PerturbFeatures(call.feature_matrix, call.rng)) :
           /\ IF call.mode = "ranked" /\ ~outcome.raised
              THEN \E order \in ArgSorts(outcome.values) :
                       call' = RankedDrawStep(call, outcome, order)
              ELSE call' = DrawStep(call, outcome)
           /\ predictorRaised' = (predictorRaised \/ outcome.raised)
    /\ UNCHANGED <<model, config, xform, frontend>>
    /\ UNCHANGED batch

RunReturn ==
    /\ call.phase = "loop"
    /\ Len(call.predictions) = call.n_sims
    /\ call' = RunExit(call)
    /\ UNCHANGED <<model, config, xform, frontend, predictorRaised>>
    /\ UNCHANGED batch

-----------------------------------------------------------------------------
(* Inputs *)

\* rows: grid_position, rain_probability, pit_stops_count, fuel_flow_ratio,
\* power_ratio, corners, aero_coeff, weight_ratio, tire_grip_ratio,
\* avg_pos_last5, in 1/100
RowA == <<100, 20, 200, 100, 15, 1900, 100, 100, 100, 150>>
RowB == <<300, 20, 0, 100, 15, 1900, 100, 100, 100, 420>>
RowC == <<1900, 20, 100, 100, 15, 1900, 100, 100, 100, 1680>>

Frames == {<<RowA>>, <<RowA, RowB>>}

\* a three-entity event, given to the deterministic predictors only
Frames3 == {<<RowA, RowB, RowC>>}

DriverLists(L) ==
    IF L = 1 THEN {<<"A">>, <<"A", "B">>}
    ELSE IF L = 2 THEN {<<"A", "B">>, <<"A", "A">>, <<"A">>}
    ELSE {<<"A", "B", "C">>}

\* column layouts of the caller's frame: a label that is no feature (the
\* target column of the feature table), the fit-time labels reversed, the
\* target column in front of them, and a layout lacking one fit-time label
TargetColumn == <<"p", "o", "s", "i", "t", "i", "o", "n">>
Reversed(cols) == [i \in 1..Len(cols) |-> cols[Len(cols) + 1 - i]]
Layouts ==
    { FeatureColumns,
      Reversed(FeatureColumns),
      <<TargetColumn>> \o FeatureColumns,
      Reversed(FeatureColumns) \o <<TargetColumn>>,
      SubSeq(FeatureColumns, 1, Len(FeatureColumns) - 1),
      <<TargetColumn>> \o SubSeq(FeatureColumns, 2, Len(FeatureColumns)) }

\* the rows of frame f (given in fit-time order) laid out under the labels
\* of layout; the target column holds a finishing position
FrameIn(layout, f) ==
    [r \in 1..Len(f) |-> [i \in 1..Len(layout) |->
        IF InSeq(FeatureColumns, layout[i]) THEN f[r][ColIndex(layout[i])]
        ELSE 700]]

NArgs == {None} \cup {<<n>> : n \in -1..MaxSims}

\* number of draws the configuration asks for (n_simulations in config.yaml)
ConfigSims == 2

Configs ==
    [ n_simulations     : {ConfigSims},
      driver_form_sigma : {5},
      weather_sigma     : {10},
      strategy_delta    : {10},
      random_seed       : {0, 1} ]

\* the configuration of the deterministic test: every sigma zero
ZeroSigmaConfigs ==
    [ n_simulations     : {ConfigSims},
      driver_form_sigma : {0},
      weather_sigma     : {0},
      strategy_delta    : {0},
      random_seed       : {0, 1} ]

Stub == [kind |-> "stub", bias |-> 0, wform |-> 0, wstrat |-> 0, wreg |-> 0]
Oracle == [kind |-> "oracle", bias |-> 0, wform |-> 0, wstrat |-> 0, wreg |-> 0]
Fitted ==
    { [kind |-> "linear", bias |-> 0, wform |-> Unit, wstrat |-> Unit, wreg |-> 4 * Unit],
      [kind |-> "linear", bias |-> 19 * Unit, wform |-> Unit, wstrat |-> 0, wreg |-> 4 * Unit],
      [kind |-> "strict", bias |-> 2 * Unit, wform |-> Unit, wstrat |-> Unit, wreg |-> 4 * Unit] }

-----------------------------------------------------------------------------
(* The batch pipeline: Scenario Transform and Result Aggregator.  Their    *)
(* code (main.py: simulate_races, src/regulation_transform.py) is not part *)
(* of the source tree at hand; they are modelled from the specification.   *)

Event(id, name, rows, drivers) ==
    [event_id |-> id, event_name |-> name, rows |-> rows, drivers |-> drivers]

TableGood ==
    << Event("2024_R01", "Bahrain Grand Prix", <<RowA, RowB>>, <<"A", "B">>),
       Event("2024_R02", "Monaco Grand Prix", <<RowB, RowC, RowA>>, <<"B", "C", "A">>) >>
TableMalformed ==
    << Event("2024_R01", "Bahrain Grand Prix", <<RowA, RowB>>, <<"A", "B">>),
       Event("2024_R02", "Monaco Grand Prix", <<RowC>>, <<"C">>) >>
TableEmpty == << >>

Tables == {TableGood, TableMalformed, TableEmpty}

Scenarios == {"current", "future"}
Units == {<<e, sc>> : e \in 1..Len(table), sc \in Scenarios}

\* the future scenario's multiplier of a column, in 1/1000
Multiplier(col) ==
    CASE col = PowerRatio    -> 3330
      [] col = AeroCoeff     -> 700
      [] col = WeightRatio   -> 962
      [] col = FuelFlowRatio -> 750
      [] col = TireGripRatio -> 940
      [] OTHER               -> 1000

ScenarioTransform(frame) ==
    [r \in 1..Len(frame) |-> [c \in 1..Len(FeatureColumns) |->
        (frame[r][c] * Multiplier(FeatureColumns[c])) \div 1000]]

\* the feature subset a unit simulates
UnitFeaturesBaselineOnly(ev, sc) == ev.rows
UnitFeatures(ev, sc) ==
    IF sc = "future" THEN ScenarioTransform(ev.rows) ELSE ev.rows

\* the seed of a unit's random stream: top-level seed, event index, scenario
UnitSeed(seed, e, sc) ==
    (seed + 2 * e + (IF sc = "future" THEN 1 ELSE 0)) % RngMod

\* a data error: an event with fewer than 2 entities
IsMalformedNever(ev) == FALSE
IsMalformed(ev) == Len(ev.rows) < 2

\* a configuration error: non-positive n_simulations
ConfigValid == config.n_simulations > 0

NoFile == [writer |-> 0, entries |-> <<>>, closed |-> FALSE]
\* the artifact a previous execution left at the final path
PreviousArtifact == [writer |-> 0, entries |-> <<>>, closed |-> TRUE]

\* the key under which the artifact stores a scenario's distributions
ScenarioKeyAsNamed(sc) == sc
ScenarioKey(sc) == IF sc = "future" THEN "2026" ELSE "current"

\* the artifact's object for event e, assembled from the stored results;
\* event_id is the key of the object in the artifact
Entry(e) ==
    [k \in {"event_id", "event_name"} \cup {ScenarioKey(sc) : sc \in Scenarios} |->
        CASE k = "event_id"   -> table[e].event_id
          [] k = "event_name" -> table[e].event_name
          [] OTHER -> results[pipe.runNo][<<e, CHOOSE sc \in Scenarios : ScenarioKey(sc) = k>>]]

\* the events that have results, in Feature Table order
RECURSIVE EventsWithResults(_)
EventsWithResults(e) ==
    IF e > Len(table) THEN <<>>
    ELSE IF {<<e, sc>> : sc \in Scenarios} \subseteq DOMAIN results[pipe.runNo]
         THEN <<e>> \o EventsWithResults(e + 1)
         ELSE EventsWithResults(e + 1)

\* the two paths after the next object has been written: output goes to the
\* temporary path, the final path is not touched
FilesAfterWriteInPlace(f, entry, last) ==
    LET old == IF f.final.writer = pipe.runNo THEN f.final.entries ELSE <<>>
    IN  [ tmp   |-> [writer |-> pipe.runNo, entries |-> Append(old, entry), closed |-> last],
          final |-> [writer |-> pipe.runNo, entries |-> Append(old, entry), closed |-> last] ]
FilesAfterWrite(f, entry, last) ==
    LET old == IF f.tmp.writer = pipe.runNo THEN f.tmp.entries ELSE <<>>
    IN  [f EXCEPT !.tmp = [writer |-> pipe.runNo,
                           entries |-> Append(old, entry),
                           closed |-> last]]

NoCalls == [count |-> 0, features |-> <<>>, n_simulations |-> None, model |-> <<>>]

PipelineStart ==
    /\ pipe.phase = "idle"
    /\ pipe' = [pipe EXCEPT
                  !.phase = IF ConfigValid /\ Len(table) > 0
                            THEN "simulating" ELSE "aborted",
                  !.error = IF ~ConfigValid THEN "ConfigError"
                            ELSE IF Len(table) = 0 THEN "DataError" ELSE "none"]
    /\ calls' = [u \in Units |-> NoCalls]
    /\ UNCHANGED <<engine, table, results, files, entropy>>

StartUnit(e, sc) ==
    /\ pipe.phase = "simulating"
    /\ call.phase = "idle"
    /\ <<e, sc>> \notin DOMAIN results[pipe.runNo]
    /\ IF IsMalformed(table[e])
       THEN /\ pipe' = [pipe EXCEPT !.phase = "aborted", !.error = "DataError"]
            /\ UNCHANGED <<call, predictorRaised, calls>>
       ELSE /\ call' = NewCall(UnitFeatures(table[e], sc), table[e].drivers,
                               <<config.n_simulations>>,
                               UnitSeed(config.random_seed, e, sc))
            /\ predictorRaised' = FALSE
            /\ pipe' = [pipe EXCEPT
                          !.unit = <<e, sc>>,
                          !.first = IF @[pipe.runNo] = <<>>
                                    THEN [@ EXCEPT ![pipe.runNo] = <<e, sc>>] ELSE @]
            /\ calls' = [calls EXCEPT ![<<e, sc>>] =
                            [count         |-> @.count + 1,
                             features      |-> call'.features,
                             n_simulations |-> call'.n_simulations,
                             model         |-> model]]
    /\ UNCHANGED <<model, config, xform, frontend, table, results, files, entropy>>

CollectUnit ==
    /\ pipe.phase = "simulating"
    /\ call.phase = "returned"
    /\ results' = [results EXCEPT ![pipe.runNo] = (pipe.unit :> call.stats) @@ @]
    /\ pipe' = [pipe EXCEPT
                  !.unit = <<>>,
                  !.phase = IF DOMAIN results'[pipe.runNo] = Units
                            THEN "writing" ELSE "simulating"]
    /\ call' = NoCall
    /\ UNCHANGED <<model, config, xform, frontend, predictorRaised, table, calls, files, entropy>>

\* fail fast: an error of a unit ends the process, nothing is written
UnitFails ==
    /\ pipe.phase = "simulating"
    /\ call.phase = "raised"
    /\ pipe' = [pipe EXCEPT !.phase = "aborted", !.error = call.error, !.unit = <<>>]
    /\ call' = NoCall
    /\ predictorRaised' = FALSE
    /\ UNCHANGED <<model, config, xform, frontend, table, results, calls, files, entropy>>

WriteEvent ==
    /\ pipe.phase = "writing"
    /\ LET todo == EventsWithResults(1)
           k == IF files.tmp.writer = pipe.runNo THEN Len(files.tmp.entries) ELSE 0
       IN  /\ ~(files.tmp.writer = pipe.runNo /\ files.tmp.closed)
           /\ k < Len(todo)
           /\ files' = FilesAfterWrite(files, Entry(todo[k + 1]), k + 1 = Len(todo))
    /\ UNCHANGED <<engine, table, pipe, results, calls, entropy>>

\* an I/O error while the artifact is being written
WriteFails ==
    /\ pipe.phase = "writing"
    /\ pipe' = [pipe EXCEPT !.phase = "aborted", !.error = "IOError"]
    /\ UNCHANGED <<engine, table, results, calls, files, entropy>>

Rename ==
    /\ pipe.phase = "writing"
    /\ files.tmp.writer = pipe.runNo
    /\ files.tmp.closed
    /\ files' = [tmp |-> NoFile, final |-> files.tmp]
    /\ pipe' = [pipe EXCEPT !.phase = "done"]
    /\ UNCHANGED <<engine, table, results, calls, entropy>>

\* the operator runs the batch a second time on the same inputs, in a new
\* process
Rerun ==
    /\ pipe.phase \in {"done", "aborted"}
    /\ pipe.runNo = 1
    /\ pipe' = [pipe EXCEPT !.phase = "idle", !.runNo = 2, !.error = "none",
                             !.finalAtStart = files.final]
    /\ entropy' = entropy + 1
    /\ UNCHANGED <<engine, table, results, calls, files>>

-----------------------------------------------------------------------------
(* The Scenario Transform as a function of a row and a multiplier table.   *)
(* A row maps column names to values, a multiplier table maps the names of *)
(* the listed columns to multipliers in 1/1000.                            *)

\* largest number of successive applications to one row
MaxApply == 2

\* the keys a multiplier table must have
RegulationColumns ==
    <<PowerRatio, AeroCoeff, WeightRatio, FuelFlowRatio, TireGripRatio>>

Range(s) == {s[i] : i \in 1..Len(s)}
Restrict(f, S) == [x \in S |-> f[x]]

FutureMultipliers == [k \in Range(RegulationColumns) |-> Multiplier(k)]
BaselineMultipliers == [k \in Range(RegulationColumns) |-> 1000]

\* the required keys the table lacks, and the first of them in table order
MissingKeysNone(multipliers) == {}
MissingKeys(multipliers) == Range(RegulationColumns) \ DOMAIN multipliers
FirstMissingKey(multipliers) ==
    RegulationColumns[CHOOSE i \in 1..Len(RegulationColumns) :
        /\ RegulationColumns[i] \in MissingKeys(multipliers)
        /\ \A j \in 1..(i - 1) : RegulationColumns[j] \notin MissingKeys(multipliers)]

\* the listed columns the row lacks
MissingFeaturesNone(row, multipliers) == {}
MissingFeatures(row, multipliers) == DOMAIN multipliers \ DOMAIN row

\* one column's step: the column becomes its value times its multiplier
ScaleColumnTogether(row, multipliers, col) ==
    [c \in DOMAIN row |->
        IF c \in DOMAIN multipliers THEN (row[c] * multipliers[col]) \div 1000
        ELSE row[c]]
ScaleColumnRounded(row, multipliers, col) ==
    IF col \in DOMAIN row
    THEN [row EXCEPT ![col] = (((@ * multipliers[col]) \div 1000) \div 10) * 10]
    ELSE row
ScaleColumn(row, multipliers, col) ==
    IF col \in DOMAIN row
    THEN [row EXCEPT ![col] = (@ * multipliers[col]) \div 1000]
    ELSE row

\* the listed columns processed one after the other in the given order
RECURSIVE ScaleInOrder(_, _, _)
ScaleInOrder(row, multipliers, order) ==
    IF order = <<>> THEN row
    ELSE ScaleInOrder(ScaleColumn(row, multipliers, Head(order)),
                      multipliers, Tail(order))

NoRow == <<>>

\* an invocation that has been made and has not started executing; original
\* records the row the first application was given
NewTransform(row, multipliers, order) ==
    [ phase        |-> "called",
      row          |-> row,
      multipliers  |-> multipliers,
      order        |-> order,
      original     |-> row,
      applications |-> 0,
      work         |-> row,     \* the frame the function works on
      result       |-> NoRow,
      error        |-> "none",
      key          |-> <<>> ]

NoTransform == [NewTransform(NoRow, <<>>, <<>>) EXCEPT !.phase = "idle"]

\* the transform: validate the table, validate the row, scale the copy
TransformExit(t) ==
    IF MissingKeys(t.multipliers) # {}
    THEN [t EXCEPT !.phase = "raised", !.error = "MissingKey",
                   !.key = FirstMissingKey(t.multipliers)]
    ELSE IF MissingFeatures(t.row, t.multipliers) # {}
    THEN [t EXCEPT !.phase = "raised", !.error = "MissingFeature"]
    ELSE LET scaled == ScaleInOrder(t.row, t.multipliers, t.order)
         IN  [t EXCEPT !.phase = "returned", !.work = scaled, !.result = scaled,
                       !.applications = @ + 1]

\* the orders in which the listed columns of a table can be processed
Orders(multipliers) ==
    LET K == DOMAIN multipliers
        n == Cardinality(K)
    IN  {o \in [1..n -> K] : \A i, j \in 1..n : i # j => o[i] # o[j]}

ApplyTransform ==
    /\ xform.phase = "called"
    /\ xform' = TransformExit(xform)
    /\ UNCHANGED <<model, config, frontend, call, predictorRaised>>
    /\ UNCHANGED batch

\* the caller applies the same scenario again, to the row it got back
Reapply ==
    /\ xform.phase = "returned"
    /\ xform.applications < MaxApply
    /\ \E order \in Orders(xform.multipliers) :
           xform' = [xform EXCEPT !.phase = "called", !.row = xform.result,
                                  !.work = xform.result, !.result = NoRow,
                                  !.order = order]
    /\ UNCHANGED <<model, config, frontend, call, predictorRaised>>
    /\ UNCHANGED batch

\* rows: the feature rows by column name, one with ruleset parameters that
\* differ from column to column, and rows lacking a ruleset column
RowD == <<500, 30, 100, 80, 20, 1200, 90, 110, 95, 640>>
RowOf(values) == [name \in Range(FeatureColumns) |-> values[ColIndex(name)]]
TransformRows ==
    { RowOf(RowA), RowOf(RowD),
      Restrict(RowOf(RowD), Range(FeatureColumns) \ {TireGripRatio}),
      Restrict(RowOf(RowA), Range(FeatureColumns) \ {PowerRatio, AeroCoeff}) }

\* tables: the two scenarios, and tables lacking required keys
TransformTables ==
    { FutureMultipliers, BaselineMultipliers,
      Restrict(FutureMultipliers, Range(RegulationColumns) \ {TireGripRatio}),
      Restrict(FutureMultipliers, Range(RegulationColumns) \ {AeroCoeff, FuelFlowRatio}) }

-----------------------------------------------------------------------------
(* The dashboard (frontend/src).  Its components are idle while the batch  *)
(* pipeline runs.                                                          *)

\* JavaScript's undefined
Undefined == <<>>

NoClient == [phase |-> "idle"]
NoMovers == [phase |-> "idle"]
NoVisualizer == [phase |-> "idle"]
NoFilters == [phase |-> "idle"]

FrontendIdle ==
    /\ client = NoClient
    /\ movers = NoMovers
    /\ visualizer = NoVisualizer
    /\ filters = NoFilters

\* first[r] is the unit run r started first
NewPipe == [phase |-> "idle", runNo |-> 1, unit |-> <<>>, error |-> "none",
            finalAtStart |-> PreviousArtifact, first |-> [r \in 1..2 |-> <<>>]]

PipelineConfigs ==
    [ n_simulations     : {0, ConfigSims},
      driver_form_sigma : {5},
      weather_sigma     : {10},
      strategy_delta    : {10},
      random_seed       : {0, 1} ]

Init ==
    /\ model \in Fitted
    /\ config \in PipelineConfigs
    /\ call = NoCall
    /\ predictorRaised = FALSE
    /\ table \in Tables
    /\ pipe = NewPipe
    /\ results = [r \in 1..2 |-> <<>>]
    /\ calls = <<>>
    /\ files = [tmp |-> NoFile, final |-> PreviousArtifact]
    /\ entropy = 0
    /\ xform = NoTransform
    /\ FrontendIdle

Next ==
    \/ PipelineStart
    \/ \E e \in 1..Len(table), sc \in Scenarios : StartUnit(e, sc)
    \/ RunStart
    \/ RunDraw
    \/ RunReturn
    \/ CollectUnit
    \/ UnitFails
    \/ WriteEvent
    \/ WriteFails
    \/ Rename
    \/ Rerun

Spec == Init /\ [][Next]_vars

-----------------------------------------------------------------------------
(* Direct calls of run: any frame, driver list and n_simulations argument  *)

\* the call run(features, driver_names, n_simulations=n) on a frame whose
\* columns are laid out as layout
CallOn(layout, f, d, n) ==
    [NewCall(FrameIn(layout, f), d, n, config.random_seed)
        EXCEPT !.columns = layout]

InitRun ==
    /\ \/ /\ model = Oracle
          /\ config \in Configs
          /\ \E f \in Frames : \E d \in DriverLists(Len(f)) : \E n \in NArgs :
                 call = NewCall(f, d, n, config.random_seed)
       \/ /\ model \in Fitted \cup {Stub}
          /\ config \in Configs \cup ZeroSigmaConfigs
          /\ \E layout \in Layouts : \E f \in Frames \cup Frames3 :
             \E d \in DriverLists(Len(f)) : \E n \in NArgs :
                 call = CallOn(layout, f, d, n)
    /\ predictorRaised = FALSE
    /\ table = TableEmpty
    /\ pipe = [NewPipe EXCEPT !.phase = "direct"]
    /\ results = [r \in 1..2 |-> <<>>]
    /\ calls = <<>>
    /\ files = [tmp |-> NoFile, final |-> PreviousArtifact]
    /\ entropy = 0
    /\ xform = NoTransform
    /\ FrontendIdle

NextRun == RunStart \/ RunDraw \/ RunReturn

SpecRun == InitRun /\ [][NextRun]_vars

\* Direct calls of run with the ranked loop body selected
RankedNArgs == {None, <<1>>, <<2>>}

InitRanked ==
    /\ model = Oracle
    /\ config \in Configs
    /\ \E f \in {<<RowA, RowB>>} \cup Frames3 :
       \E d \in DriverLists(Len(f)) : \E n \in RankedNArgs :
           call = [NewCall(f, d, n, config.random_seed) EXCEPT !.mode = "ranked"]
    /\ predictorRaised = FALSE
    /\ table = TableEmpty
    /\ pipe = [NewPipe EXCEPT !.phase = "direct"]
    /\ results = [r \in 1..2 |-> <<>>]
    /\ calls = <<>>
    /\ files = [tmp |-> NoFile, final |-> PreviousArtifact]
    /\ entropy = 0
    /\ xform = NoTransform
    /\ FrontendIdle

SpecRanked == InitRanked /\ [][NextRun]_vars

\* Direct calls of the Scenario Transform
InitTransform ==
    /\ model = Stub
    /\ config \in {c \in ZeroSigmaConfigs : c.random_seed = 0}
    /\ call = NoCall
    /\ predictorRaised = FALSE
    /\ table = TableEmpty
    /\ pipe = [NewPipe EXCEPT !.phase = "direct"]
    /\ results = [r \in 1..2 |-> <<>>]
    /\ calls = <<>>
    /\ files = [tmp |-> NoFile, final |-> PreviousArtifact]
    /\ entropy = 0
    /\ \E row \in TransformRows : \E multipliers \in TransformTables :
       \E order \in Orders(multipliers) :
           xform = NewTransform(row, multipliers, order)
    /\ FrontendIdle

NextTransform == ApplyTransform \/ Reapply

SpecTransform == InitTransform /\ [][NextTransform]_vars

-----------------------------------------------------------------------------
(* Properties of run and _summarise_predictions, under SpecRun *)

StoredValues == {call.predictions[i][j] :
                    i \in 1..Len(call.predictions), j \in 1..Len(call.features)}

\* C1, as claimed: every value stored in the accumulator lies in
\* [1, N_entities], N_entities the number of rows of the feature subset.
C1_ClippedToEntityCount ==
    \A v \in StoredValues : 1 * Unit <= v /\ v <= Len(call.features) * Unit

\* C1, amended: every value stored in the accumulator lies in [1, 20],
\* whatever the predictor returned and however many rows the subset has.
C1_ClippedToGrid ==
    \A v \in StoredValues : 1 * Unit <= v /\ v <= 20 * Unit

\* a draw stored both bounds of the clip for a subset of fewer than 20 rows:
\* the oracle returns neither bound, so both came out of the clip
C1_Witness ==
    /\ Len(call.features) < 20
    /\ 1 * Unit \in StoredValues
    /\ 20 * Unit \in StoredValues

\* the accumulator column summarised under name d
OwnColumn(d) ==
    LET idx == CHOOSE i \in 1..Len(call.driver_names) :
                   /\ call.driver_names[i] = d
                   /\ \A j \in (i + 1)..Len(call.driver_names) :
                          call.driver_names[j] # d
    IN  {<<i, call.predictions[i][idx]>> : i \in 1..Len(call.predictions)}

DrawsAtOrBelow(d, k) == Cardinality({p \in OwnColumn(d) : p[2] <= k * Unit})

\* C2: in the default mode top3_probability and top5_probability of an
\* entity are exactly the fraction of draws in which its own clipped value
\* is <= 3, respectively <= 5; no other entity's value enters.
C2_TopKIsOwnFraction ==
    call.phase = "returned" =>
        \A d \in DOMAIN call.stats :
            /\ call.stats[d].top3_probability[2] = call.n_sims
            /\ call.stats[d].top3_probability[1] = DrawsAtOrBelow(d, 3)
            /\ call.stats[d].top5_probability[2] = call.n_sims
            /\ call.stats[d].top5_probability[1] = DrawsAtOrBelow(d, 5)

\* two entities of one event, one of them with a value exactly on the
\* threshold 3 in some draw and above it in another
C2_Witness ==
    /\ call.phase = "returned"
    /\ Len(call.driver_names) = 2
    /\ call.driver_names[1] # call.driver_names[2]
    /\ \E d \in DOMAIN call.stats :
           /\ \E p \in OwnColumn(d) : p[2] = 3 * Unit
           /\ \E p \in OwnColumn(d) : p[2] > 3 * Unit
           /\ call.stats[d].top3_probability[1] > 0
           /\ call.stats[d].top3_probability[1] < call.n_sims

\* C3: for every entity min <= percentile_5 <= median <= percentile_95 <= max
\* and 0 <= top3_probability <= top5_probability <= 1.
C3_OrderedSummary ==
    call.phase = "returned" =>
        \A d \in DOMAIN call.stats :
            LET s == call.stats[d]
            IN  /\ RLeq(s.min, s.percentile_5)
                /\ RLeq(s.percentile_5, s.median)
                /\ RLeq(s.median, s.percentile_95)
                /\ RLeq(s.percentile_95, s.max)
                /\ RLeq(Rat(0, 1), s.top3_probability)
                /\ RLeq(s.top3_probability, s.top5_probability)
                /\ RLeq(s.top5_probability, Rat(1, 1))

\* a column of three draws in descending order whose percentiles lie
\* strictly between its extremes
C3_Witness ==
    /\ call.phase = "returned"
    /\ call.n_sims >= 3
    /\ \E d \in DOMAIN call.stats :
           LET s == call.stats[d]
           IN  /\ \E p, q \in OwnColumn(d) : p[1] < q[1] /\ p[2] > q[2]
               /\ ~RLeq(s.percentile_5, s.min)
               /\ ~RLeq(s.median, s.percentile_5)
               /\ ~RLeq(s.max, s.percentile_95)
               /\ ~RLeq(s.top5_probability, s.top3_probability)

\* C6, as claimed: a call with an explicit n_simulations <= 0 draws no random
\* number, never calls the predictor and returns no distributions.
C6_NonPositiveDrawsRejected ==
    (call.n_simulations # None /\ call.n_simulations[1] <= 0) =>
        /\ call.drawn = 0
        /\ call.predicted = 0
        /\ call.phase # "returned"

\* C7: once the predictor has raised on a draw, run has ended with that
\* error and holds no distribution for any entity.
C7_PredictorErrorAborts ==
    predictorRaised =>
        /\ call.phase = "raised"
        /\ call.error = "PredictError"
        /\ call.stats = <<>>

\* the predictor raised after at least one draw had been stored
C7_Witness ==
    /\ predictorRaised
    /\ Len(call.predictions) >= 1
    /\ call.phase = "raised"

-----------------------------------------------------------------------------
(* Properties of the batch pipeline, under Spec *)

CompleteArtifact(f) ==
    /\ f.writer = pipe.runNo
    /\ f.closed
    /\ DOMAIN results[pipe.runNo] = Units
    /\ Len(f.entries) = Len(table)
    /\ \A e \in 1..Len(table) :
           /\ f.entries[e].event_id = table[e].event_id
           /\ \A sc \in Scenarios :
                  f.entries[e][ScenarioKey(sc)] = results[pipe.runNo][<<e, sc>>]

\* C8: at every point of a run, also after an abort, the artifact at the
\* final path is either as the run found it or the run's complete artifact.
C8_FinalPathAtomic ==
    files.final = pipe.finalAtStart \/ CompleteArtifact(files.final)

\* the second run aborted with a half-written temporary file while the
\* final path still holds the first run's artifact
C8_Witness ==
    /\ pipe.runNo = 2
    /\ pipe.phase = "aborted"
    /\ files.tmp.writer = 2
    /\ Len(files.tmp.entries) >= 1
    /\ ~files.tmp.closed
    /\ files.final.writer = 1
    /\ files.final = pipe.finalAtStart

\* C9: a malformed event (fewer than 2 entities) aborts the whole run, so
\* no artifact is written from a table that has one, and the event set of
\* a written artifact equals the event set of the Feature Table.
C9_MalformedEventIsFatal ==
    /\ (\E e \in 1..Len(table) : Len(table[e].rows) < 2) =>
           /\ files.final = PreviousArtifact
           /\ files.tmp = NoFile
           /\ pipe.phase \notin {"writing", "done"}
    /\ files.final.writer >= 1 =>
           {files.final.entries[i].event_id : i \in 1..Len(files.final.entries)}
               = {table[e].event_id : e \in 1..Len(table)}

\* the run reached the malformed event after it had stored results for
\* another event, and aborted
C9_Witness ==
    /\ \E e \in 1..Len(table) : Len(table[e].rows) < 2
    /\ pipe.phase = "aborted"
    /\ pipe.error = "DataError"
    /\ Cardinality(DOMAIN results[pipe.runNo]) = 2

\* C10: for every event the engine is run exactly twice, once on the
\* baseline subset and once on the transformed subset, with the same
\* predictor and number of draws, and both results cover the same entities.
C10_TwoRunsPerEvent ==
    /\ pipe.phase \in {"simulating", "writing", "done"} =>
           \A u \in Units : calls[u].count <= 1
    /\ pipe.phase \in {"writing", "done"} =>
           \A e \in 1..Len(table) :
               LET cur == <<e, "current">>
                   fut == <<e, "future">>
               IN  /\ calls[cur].count = 1
                   /\ calls[fut].count = 1
                   /\ calls[cur].features = table[e].rows
                   /\ calls[fut].features = ScenarioTransform(table[e].rows)
                   /\ calls[cur].model = calls[fut].model
                   /\ calls[cur].n_simulations = calls[fut].n_simulations
                   /\ DOMAIN results[pipe.runNo][cur]
                        = {table[e].drivers[i] : i \in 1..Len(table[e].drivers)}
                   /\ DOMAIN results[pipe.runNo][fut]
                        = DOMAIN results[pipe.runNo][cur]

\* a finished run in which the two scenarios of an event gave different
\* distributions
C10_Witness ==
    /\ pipe.phase = "done"
    /\ \E e \in 1..Len(table) :
           results[pipe.runNo][<<e, "current">>] # results[pipe.runNo][<<e, "future">>]

-----------------------------------------------------------------------------
(* The ranked loop body, under SpecRanked *)

IsPermutationOfRanks(row) ==
    {row[j] : j \in 1..Len(row)} = {k * Unit : k \in 1..Len(row)}

-----------------------------------------------------------------------------
(* The deterministic test: a constant predictor, or no noise at all *)

SigmasZero ==
    /\ config.driver_form_sigma = 0
    /\ config.weather_sigma = 0
    /\ config.strategy_delta = 0

REq(x, y) == x[1] * y[2] = y[1] * x[2]

\* C12: with a predictor that returns the same vector on every draw (the
\* stub, or any deterministic predictor when every sigma is zero), every
\* draw stores the clipped vector, and each entity's mean, median, min, max
\* and both percentiles equal its clipped value, its std is 0, and each
\* threshold probability is 1 when the value is at or below the threshold
\* (boundary included) and 0 otherwise.
C12_ConstantDrawsSummary ==
    (call.phase = "returned" /\ (model.kind = "stub" \/ SigmasZero)) =>
        /\ \A i \in 1..Len(call.predictions) :
               call.predictions[i] = ClipRow(call.raw)
        /\ \A d \in DOMAIN call.stats :
               LET v == Clip(call.raw[LastIndex(call.driver_names, d)])
                   s == call.stats[d]
               IN  /\ REq(s.mean, Rat(v, 1))
                   /\ REq(s.median, Rat(v, 1))
                   /\ REq(s.min, Rat(v, 1))
                   /\ REq(s.max, Rat(v, 1))
                   /\ REq(s.percentile_5, Rat(v, 1))
                   /\ REq(s.percentile_95, Rat(v, 1))
                   /\ s.std[1] = 0
                   /\ REq(s.top3_probability,
                          IF v <= 3 * Unit THEN Rat(1, 1) ELSE Rat(0, 1))
                   /\ REq(s.top5_probability,
                          IF v <= 5 * Unit THEN Rat(1, 1) ELSE Rat(0, 1))

\* the stub with every sigma zero, several draws, three entities: one on the
\* threshold 3, one just above it, one clipped to the grid
C12_Witness ==
    /\ call.phase = "returned"
    /\ model.kind = "stub"
    /\ SigmasZero
    /\ call.n_sims >= 2
    /\ DOMAIN call.stats = {"A", "B", "C"}
    /\ call.stats["A"].top3_probability = Rat(call.n_sims, call.n_sims)
    /\ call.stats["B"].top3_probability = Rat(0, call.n_sims)
    /\ call.stats["B"].top5_probability = Rat(call.n_sims, call.n_sims)
    /\ call.stats["C"].max = Rat(20 * Unit, 1)

-----------------------------------------------------------------------------
(* Properties of the Scenario Transform, under SpecTransform *)

\* C13: in the row the transform returns, each column listed in the
\* multiplier table equals its value in the input row times its multiplier,
\* whatever the order in which the columns were processed, and every
\* unlisted column equals its value in the input row.
C13_ListedColumnsScaled ==
    xform.phase = "returned" =>
        /\ DOMAIN xform.result = DOMAIN xform.row
        /\ \A col \in DOMAIN xform.row :
               xform.result[col] =
                   IF col \in DOMAIN xform.multipliers
                   THEN (xform.row[col] * xform.multipliers[col]) \div 1000
                   ELSE xform.row[col]

\* the future scenario applied in an order other than the table's: power
\* ratio 0.15 becomes 0.49, the five columns scaled by different factors
C13_Witness ==
    /\ xform.phase = "returned"
    /\ xform.multipliers = FutureMultipliers
    /\ xform.order # RegulationColumns
    /\ xform.order[1] = TireGripRatio
    /\ xform.applications = 1
    /\ xform.row[PowerRatio] = 15
    /\ xform.result[PowerRatio] = 49
    /\ xform.result[AeroCoeff] = 70
    /\ xform.result[Corners] = xform.row[Corners]

\* C14: the baseline scenario (every multiplier 1.0) returns a row equal to
\* the original, also when it is applied to its own result again.
C14_BaselineIsIdentity ==
    (xform.multipliers = BaselineMultipliers /\ xform.phase = "returned") =>
        xform.result = xform.original

C14_Witness ==
    /\ xform.multipliers = BaselineMultipliers
    /\ xform.phase = "returned"
    /\ xform.applications = MaxApply
    /\ xform.original = RowOf(RowD)
    /\ xform.result = RowOf(RowD)

C16_MissingKeyRaises ==
    (/\ xform.phase \in {"returned", "raised"}
     /\ \E k \in Range(RegulationColumns) : k \notin DOMAIN xform.multipliers) =>
        /\ xform.phase = "raised"
        /\ xform.error = "MissingKey"
        /\ xform.key \in Range(RegulationColumns) \ DOMAIN xform.multipliers
        /\ xform.work = xform.row
        /\ xform.result = NoRow

\* a table without tire_grip_ratio, applied to a complete row
C16_Witness ==
    /\ xform.phase = "raised"
    /\ xform.error = "MissingKey"
    /\ xform.key = TireGripRatio
    /\ DOMAIN xform.row = Range(FeatureColumns)
    /\ xform.work = xform.row

-----------------------------------------------------------------------------
(* What _perturb_features may touch, under SpecRun *)

\* the category of a column in the feature catalogue
Category(col) ==
    CASE col = AvgPosLast5   -> "Driver Form"
      [] col = GridPosition  -> "Qualifying"
      [] col = Corners       -> "Track"
      [] col = RainProb      -> "Conditions"
      [] col = PitStopsCount -> "Strategy"
      [] col \in Range(RegulationColumns) -> "Regulations"

\* C17: in every draw the perturbed frame equals the input frame in every
\* venue, ruleset-parameter, derived and context column (power_ratio,
\* aero_coeff, weight_ratio, tire_grip_ratio and fuel_flow_ratio included);
\* only form, weather and strategy columns may differ.
C17_OnlyMarkedColumnsPerturbed ==
    call.predicted > 0 =>
        \A r \in 1..Len(call.perturbed) : \A c \in 1..Len(FeatureColumns) :
            Category(FeatureColumns[c]) \in {"Track", "Regulations", "Derived", "Baseline"}
                => call.perturbed[r][c] = call.feature_matrix[r][c]

-----------------------------------------------------------------------------
(* Copies made by run, under SpecRun *)

\* the columns run selects from the frame as the caller passed it
SelectedAtCall ==
    SelectColumns(call.columns, call.given_features, FeatureColumns).frame

\* C18: every draw perturbs a fresh copy of the selected columns.  While run
\* executes and after it has returned or raised, the caller's frame and the
\* fitted predictor are as they were passed, the engine's frame still equals
\* the selection from the caller's frame, and the frame a draw hands to the
\* predictor is the perturbation of that selection by this draw's random
\* numbers alone.
C18_DrawsPerturbFreshCopy ==
    call.phase \in {"loop", "returned", "raised"} =>
        /\ call.features = call.given_features
        /\ model = call.given_model
        /\ call.predictions # <<>> =>
               /\ call.feature_matrix = SelectedAtCall
               /\ pipe.phase = "direct" =>
                      call.perturbed =
                          PerturbFeatures(SelectedAtCall,
                              RngAt(config.random_seed,
                                    call.drawn - DrawsPerPerturb(Len(SelectedAtCall))))

\* a run that returned after several draws, the last of which changed the
\* copy it was given, with a predictor that read the perturbed values
C18_Witness ==
    /\ call.phase = "returned"
    /\ model.kind = "linear"
    /\ call.predicted >= 2
    /\ call.perturbed # call.feature_matrix
    /\ call.feature_matrix = call.given_features
    /\ call.features = call.given_features

-----------------------------------------------------------------------------
(* The artifact's shape and its dashboard consumer, under Spec *)

\* api.getCircuitComparisons on one event object of the loaded artifact:
\* null when a scenario is not found under its key, otherwise the positions
\* the comparison is computed from (the remaining fields are reductions of
\* these two lists)
Null == <<>>
GetCircuitComparison(raceData) ==
    IF ~("current" \in DOMAIN raceData /\ "2026" \in DOMAIN raceData)
    THEN Null
    ELSE LET drivers == DOMAIN raceData["current"]
         IN  [ trackName        |-> raceData["event_name"],
               currentPositions |-> [d \in drivers |-> raceData["current"][d].mean],
               futurePositions  |->
                   [d \in drivers |->
                       IF d \in DOMAIN raceData["2026"]
                       THEN raceData["2026"][d].mean
                       ELSE raceData["current"][d].mean] ]

StatFields ==
    {"mean", "std", "median", "min", "max", "percentile_5", "percentile_95",
     "top3_probability", "top5_probability"}

IsNumber(x) == x \in Seq(Int) /\ Len(x) = 2 /\ x[2] > 0

\* the event object maps every entity of event e to the nine numeric fields
\* under each of the two given scenario keys
ShapedWithKeys(entry, e, keys) ==
    /\ DOMAIN entry = {"event_id", "event_name"} \cup keys
    /\ entry["event_name"] = table[e].event_name
    /\ \A k \in keys :
           /\ DOMAIN entry[k] = Range(table[e].drivers)
           /\ \A d \in DOMAIN entry[k] :
                  /\ DOMAIN entry[k][d] = StatFields
                  /\ \A f \in StatFields : IsNumber(entry[k][d][f])

WrittenArtifact == files.final.writer = pipe.runNo /\ files.final.closed

\* C19, as claimed: every per-event object of the artifact has event_name
\* and the scenario keys current and future, each mapping every entity to
\* the nine numeric fields.
C19_KeysCurrentAndFuture ==
    WrittenArtifact =>
        \A e \in 1..Len(files.final.entries) :
            ShapedWithKeys(files.final.entries[e], e, {"current", "future"})

\* C19, amended: the scenario keys are current and 2026, and the dashboard
\* consumer finds both scenarios under these keys: it builds a comparison
\* for every event, from the current means and the 2026 means.
C19_KeysCurrentAnd2026 ==
    WrittenArtifact =>
        \A e \in 1..Len(files.final.entries) :
            LET entry == files.final.entries[e]
                cmp   == GetCircuitComparison(entry)
            IN  /\ ShapedWithKeys(entry, e, {"current", "2026"})
                /\ cmp # Null
                /\ cmp.trackName = table[e].event_name
                /\ \A d \in Range(table[e].drivers) :
                       /\ cmp.currentPositions[d] = results[pipe.runNo][<<e, "current">>][d].mean
                       /\ cmp.futurePositions[d] = results[pipe.runNo][<<e, "future">>][d].mean

\* a written artifact with two events whose scenarios differ for an entity
C19_Witness ==
    /\ WrittenArtifact
    /\ Len(files.final.entries) = 2
    /\ \E e \in 1..2 : \E d \in Range(table[e].drivers) :
           LET cmp == GetCircuitComparison(files.final.entries[e])
           IN  /\ cmp # Null
               /\ cmp.currentPositions[d] # cmp.futurePositions[d]

-----------------------------------------------------------------------------
(* The columns the predictor is given, under SpecRun *)

MissingFitColumn == \E c \in Range(FeatureColumns) : ~InSeq(call.columns, c)

\* C20, as claimed: the call fails before any prediction whenever the set of
\* column names of the input batch differs from the fit-time set (a column
\* missing or an extra column present); any reordering is accepted.
C20_ExactColumnSetRequired ==
    call.phase \in {"loop", "returned", "raised"} =>
        /\ Range(call.columns) # Range(FeatureColumns) =>
               (call.phase = "raised" /\ call.error = "KeyError" /\ call.predicted = 0)
        /\ Range(call.columns) = Range(FeatureColumns) => call.error # "KeyError"

\* C20, amended: the call fails with KeyError before any prediction exactly
\* when a fit-time column is missing from the input batch; otherwise, in any
\* column order and with any extra columns, the predictor is given exactly
\* the fit-time columns in fit-time order, each holding the values the batch
\* has under that name.
C20_FitColumnsSelectedByName ==
    call.phase \in {"loop", "returned", "raised"} =>
        /\ MissingFitColumn =>
               (call.phase = "raised" /\ call.error = "KeyError" /\ call.predicted = 0)
        /\ ~MissingFitColumn =>
               /\ call.error # "KeyError"
               /\ call.predicted > 0 =>
                      /\ Len(call.feature_matrix) = Len(call.features)
                      /\ \A r \in 1..Len(call.features) :
                             /\ Len(call.feature_matrix[r]) = Len(FeatureColumns)
                             /\ \A k \in 1..Len(call.columns) :
                                    InSeq(FeatureColumns, call.columns[k]) =>
                                        call.feature_matrix[r][ColIndex(call.columns[k])]
                                            = call.features[r][k]

\* a batch with the columns reversed and the target column added, on which
\* run returned distributions
C20_Witness ==
    /\ call.phase = "returned"
    /\ call.columns = Reversed(FeatureColumns) \o <<TargetColumn>>
    /\ model.kind = "linear"
    /\ call.predicted >= 2
    /\ call.feature_matrix[1] = RowA

-----------------------------------------------------------------------------
(* The dashboard's API client (frontend/src/api/client.ts) and data        *)
(* adapter (frontend/src/utils/dataAdapter.ts).  client.ts holds two       *)
(* definitions of the api object: the one built on fetchWithFallback       *)
(* ("legacy") and the one built on fetchJson and the local JSON files      *)
(* ("current").  Payloads that no function looks into are tokens naming    *)
(* their origin; seasons are years, means are positions in 1/Unit.         *)

\* number of drivers of the race whose means vary
NumDrivers == 6

\* KEY_REGULATION_FEATURES: id and multiplier (in 1/1000) of the features
KEY_REGULATION_FEATURES ==
    << [id |-> PowerRatio,    category |-> "power",  multiplier |-> 3330],
       [id |-> AeroCoeff,     category |-> "aero",   multiplier |-> 1050],
       [id |-> WeightRatio,   category |-> "weight", multiplier |-> 962],
       [id |-> FuelFlowRatio, category |-> "fuel",   multiplier |-> 750],
       [id |-> TireGripRatio, category |-> "tire",   multiplier |-> 940],
       [id |-> AvgPosLast5,   category |-> "power",  multiplier |-> 1000] >>

\* SIMULATION_MAPPING: three of its entries, in their order: trackId, simKey
SIMULATION_MAPPING ==
    << <<"australia", "2022_R01">>, <<"bahrain", "2022_R04">>,
       <<"monaco", "2022_R08">> >>

pointsByPosition == <<25, 18, 15, 12, 10>>

\* what the outcome of a fetch can be: a response with an OK status, a
\* response with another status, or a rejected request
Network == {"ok", "status", "network"}

Resolved(source, value) == [outcome |-> "resolved", source |-> source, value |-> value]
Rejected(message) == [outcome |-> "rejected", source |-> "none", value |-> message]

\* fetchWithFallback: mock data without a base URL, and whenever the fetch
\* fails or answers with a non-OK status
FetchWithFallback(useMock, net, payload, mockData) ==
    IF useMock THEN Resolved("mock", mockData)
    ELSE IF net = "ok" THEN Resolved("api", payload)
    ELSE Resolved("mock", mockData)

\* fetchJson: throws without a base URL and on a non-OK status; a rejected
\* fetch propagates
FetchJson(hasUrl, net, payload) ==
    IF ~hasUrl THEN Rejected("VITE_API_BASE_URL is not configured")
    ELSE IF net = "ok" THEN Resolved("api", payload)
    ELSE IF net = "status" THEN Rejected("API error")
    ELSE Rejected("fetch failed")

\* params?.season and params?.trackId as conditions
HasSeason(params) == "season" \in DOMAIN params /\ params.season # 0
HasTrackId(params) == "trackId" \in DOMAIN params /\ params.trackId # ""

\* tracks.find((t) => t.id === trackId)
FindTrack(tracks, trackId) ==
    IF \E i \in 1..Len(tracks) : tracks[i].id = trackId
    THEN tracks[CHOOSE i \in 1..Len(tracks) :
                    /\ tracks[i].id = trackId
                    /\ \A j \in 1..(i - 1) : tracks[j].id # trackId]
    ELSE Undefined

\* the tail of getSimulations: the season filter returns before the track
\* filter is looked at
FilterBySeason(sims, season) ==
    LET keep(s) == s.season = season IN SelectSeq(sims, keep)
FilterByTrack(sims, trackId) ==
    LET keep(s) == s.trackId = trackId IN SelectSeq(sims, keep)
FilterSimulations(sims, params) ==
    IF HasSeason(params) THEN FilterBySeason(sims, params.season)
    ELSE IF HasTrackId(params) THEN FilterByTrack(sims, params.trackId)
    ELSE sims

\* .sort((a, b) => a.mean - b.mean): a stable ascending sort
RECURSIVE InsertByMean(_, _)
InsertByMean(x, s) ==
    IF s = <<>> THEN <<x>>
    ELSE IF x.mean <= Head(s).mean THEN <<x>> \o s
    ELSE <<Head(s)>> \o InsertByMean(x, Tail(s))
SortByMeanKeepOrder(s) == s
RECURSIVE SortByMean(_)
SortByMean(s) ==
    IF s = <<>> THEN <<>> ELSE InsertByMean(Head(s), SortByMean(Tail(s)))

\* .slice(0, 5)
Slice5(s) == IF Len(s) <= 5 THEN s ELSE SubSeq(s, 1, 5)

\* clamp(1 - stdDev(means) / 20, 0.5, 0.95), kept as the bound it is clamped
\* to or as the variance it is computed from
Confidence(means) ==
    IF means = <<>> THEN [clamped |-> "max", variance |-> Rat(0, 1)]
    ELSE LET v == NpVar(means)
         IN  IF RLeq(v, Rat(Unit * Unit, 1)) THEN [clamped |-> "max", variance |-> v]
             ELSE IF RLeq(Rat(100 * Unit * Unit, 1), v) THEN [clamped |-> "min", variance |-> v]
             ELSE [clamped |-> "no", variance |-> v]

\* getTeamNameForDriver and teamIdFromName, as an opaque function of the driver
TeamIdOf(driverName) == <<"team-of", driverName>>

\* the results of one local simulation: the five drivers with the lowest
\* current mean
LocalResults(drivers) ==
    [position \in 1..Len(drivers) |->
        [ position |-> position,
          driverId |-> drivers[position].driverName,
          teamId   |-> TeamIdOf(drivers[position].driverName),
          points   |-> IF position <= Len(pointsByPosition)
                       THEN pointsByPosition[position] ELSE 0,
          gap      |-> IF position = 1 THEN 0
                       ELSE drivers[position].mean - drivers[1].mean ]]

\* the simulation built from entry index of SIMULATION_MAPPING, or Null
LocalSimulation(monteCarlo, params, index) ==
    LET trackId == SIMULATION_MAPPING[index][1]
        simKey  == SIMULATION_MAPPING[index][2]
    IN  IF simKey \notin DOMAIN monteCarlo
           \/ "current" \notin DOMAIN monteCarlo[simKey]
        THEN Null
        ELSE LET drivers == Slice5(SortByMean(monteCarlo[simKey].current))
             IN  [ id         |-> simKey,
                   trackId    |-> trackId,
                   season     |-> IF "season" \in DOMAIN params
                                  THEN params.season ELSE 2026,
                   date       |-> index,
                   confidence |-> Confidence([i \in 1..Len(drivers) |-> drivers[i].mean]),
                   regulationFactors |-> <<>>,
                   results    |-> LocalResults(drivers) ]

RECURSIVE LocalSimulationsFrom(_, _, _)
LocalSimulationsFrom(monteCarlo, params, index) ==
    IF index > Len(SIMULATION_MAPPING) THEN <<>>
    ELSE LET sim == LocalSimulation(monteCarlo, params, index)
         IN  (IF sim = Null THEN <<>> ELSE <<sim>>)
                 \o LocalSimulationsFrom(monteCarlo, params, index + 1)

\* loadRegulationFactors' fallback list: impact = multiplier - 1
FallbackFactors ==
    [i \in 1..Len(KEY_REGULATION_FEATURES) |->
        [ id       |-> KEY_REGULATION_FEATURES[i].id,
          impact   |-> KEY_REGULATION_FEATURES[i].multiplier - 1000,
          category |-> KEY_REGULATION_FEATURES[i].category ]]

\* data the client does not compute: what mockData.ts exports, what the
\* bundled JSON files hold and what the API answers
Track(id) == [id |-> id]
Simulation(trackId, season) ==
    [id |-> <<trackId, season>>, trackId |-> trackId, season |-> season]
mockTracks == <<Track("bahrain"), Track("monaco")>>
mockRegulationFactors == "mockRegulationFactors"
mockTeamPerformance == "mockTeamPerformance"
mockSimulations ==
    << Simulation("bahrain", 2025), Simulation("monaco", 2025),
       Simulation("bahrain", 2026), Simulation("monaco", 2026) >>
LOCAL_TRACKS == <<Track("australia"), Track("bahrain"), Track("monaco")>>

\* the answers of the API to a request
ApiPayloads(fn) ==
    CASE fn \in {"getTracks", "getTrack"} ->
             {<<Track("monaco")>>, <<Track("bahrain"), Track("monaco")>>}
      [] fn = "getSimulations" ->
             {<<>>, <<Simulation("monaco", 2026)>>,
              <<Simulation("bahrain", 2025), Simulation("monaco", 2026)>>}
      [] fn = "getRegulationFactors" -> {"api regulations"}
      [] fn = "getTeamPerformance" -> {"api team performance"}
      [] fn = "loadRegulationFactors" -> {"regulation_factors_breakdown.json"}

\* the legacy api object
LegacyApi(c, net, payload) ==
    LET useMock == ~c.baseUrl
    IN  CASE c.fn = "getTracks" ->
                 FetchWithFallback(useMock, net, payload, mockTracks)
          [] c.fn = "getTrack" ->
                 LET r == FetchWithFallback(useMock, net, payload, mockTracks)
                 IN  [r EXCEPT !.value = FindTrack(r.value, c.params.trackId)]
          [] c.fn = "getRegulationFactors" ->
                 FetchWithFallback(useMock, net, payload, mockRegulationFactors)
          [] c.fn = "getTeamPerformance" ->
                 FetchWithFallback(useMock, net, payload, mockTeamPerformance)
          [] c.fn = "getSimulations" ->
                 LET r == FetchWithFallback(useMock, net, payload, mockSimulations)
                 IN  [r EXCEPT !.value = FilterSimulations(r.value, c.params)]

\* the current api object
CurrentApi(c, net, payload) ==
    CASE c.fn = "getTracks" ->
             IF c.baseUrl THEN FetchJson(TRUE, net, payload)
             ELSE Resolved("local", LOCAL_TRACKS)
      [] c.fn = "getTrack" ->
             IF c.baseUrl
             THEN LET r == FetchJson(TRUE, net, payload)
                  IN  IF r.outcome = "rejected" THEN r
                      ELSE [r EXCEPT !.value = FindTrack(r.value, c.params.trackId)]
             ELSE Resolved("local", FindTrack(LOCAL_TRACKS, c.params.trackId))
      [] c.fn = "getRegulationFactors" ->
             IF c.baseUrl THEN FetchJson(TRUE, net, payload)
             ELSE Resolved("local", "regulation_factors_breakdown.json")
      [] c.fn = "getTeamPerformance" ->
             IF c.baseUrl THEN FetchJson(TRUE, net, payload)
             ELSE Resolved("local", "extractTeamPerformance(monteCarlo)")
      [] c.fn = "getSimulations" ->
             IF c.baseUrl THEN FetchJson(TRUE, net, payload)
             ELSE Resolved("local",
                      FilterSimulations(
                          LocalSimulationsFrom(c.monteCarlo, c.params, 1), c.params))

\* dataAdapter.loadRegulationFactors: the factors of the JSON file, or the
\* list made from KEY_REGULATION_FEATURES when the file cannot be loaded
AdapterApi(c, net, payload) ==
    IF net = "ok" THEN Resolved("api", payload)
    ELSE Resolved("fallback", FallbackFactors)

\* whether the call sends a request
Fetches(c) == c.module = "adapter" \/ c.baseUrl

Settle(c, net, payload) ==
    LET r == CASE c.module = "legacy"  -> LegacyApi(c, net, payload)
               [] c.module = "current" -> CurrentApi(c, net, payload)
               [] c.module = "adapter" -> AdapterApi(c, net, payload)
    IN  [c EXCEPT !.phase = "settled", !.net = net, !.outcome = r.outcome,
                  !.source = r.source, !.value = r.value]

\* a data call that has been made and whose promise is pending
NewClientCall(module, baseUrl, fn, params, monteCarlo) ==
    [ phase      |-> "pending",
      module     |-> module,
      baseUrl    |-> baseUrl,     \* whether VITE_API_BASE_URL is set
      fn         |-> fn,
      params     |-> params,
      monteCarlo |-> monteCarlo,  \* outputs/monte_carlo_results.json
      net        |-> "none",
      outcome    |-> "none",
      source     |-> "none",
      value      |-> Undefined ]

\* the request of a call is answered, or fails
FetchSettles ==
    /\ client.phase = "pending"
    /\ Fetches(client)
    /\ \E net \in Network : \E payload \in ApiPayloads(client.fn) :
           client' = Settle(client, net, payload)
    /\ UNCHANGED <<model, config, xform, call, predictorRaised>>
    /\ UNCHANGED <<movers, visualizer, filters>>
    /\ UNCHANGED batch

\* a call that sends no request resolves from the mock or local data
LocalSettles ==
    /\ client.phase = "pending"
    /\ ~Fetches(client)
    /\ client' = Settle(client, "none", Undefined)
    /\ UNCHANGED <<model, config, xform, call, predictorRaised>>
    /\ UNCHANGED <<movers, visualizer, filters>>
    /\ UNCHANGED batch

\* the calls made
DataFunctions ==
    {"getTracks", "getTrack", "getRegulationFactors", "getTeamPerformance",
     "getSimulations"}
ParamsOf(fn) ==
    CASE fn = "getTrack" -> {[trackId |-> t] : t \in {"monaco", "imola"}}
      [] fn = "getSimulations" ->
             {<<>>} \cup {[season |-> s] : s \in {2025, 2026}}
                    \cup {[trackId |-> t] : t \in {"monaco", "bahrain"}}
                    \cup {[season |-> s, trackId |-> t] :
                             s \in {2025, 2026}, t \in {"monaco", "bahrain"}}
                    \cup {[season |-> 0, trackId |-> "monaco"]}
      [] OTHER -> {<<>>}

\* driver means of a race, in the order of the file
DriverName(i) == <<"driver", i>>
MeanValues == {1 * Unit, 2 * Unit, 3 * Unit}
RaceOf(means) ==
    [current |-> [i \in 1..Len(means) |-> [driverName |-> DriverName(i), mean |-> means[i]]]]
\* the local results files: a race without data, a race of two drivers and a
\* race of NumDrivers drivers with any means
MonteCarloFiles ==
    { ("2022_R01" :> [event_name |-> "Australian Grand Prix"])
        @@ ("2022_R04" :> RaceOf(<<4 * Unit, 2 * Unit>>))
        @@ ("2022_R08" :> RaceOf(means)) : means \in [1..NumDrivers -> MeanValues] }
NoMonteCarlo == <<>>

BackendIdle ==
    /\ model = Stub
    /\ config \in {c \in ZeroSigmaConfigs : c.random_seed = 0}
    /\ call = NoCall
    /\ predictorRaised = FALSE
    /\ table = TableEmpty
    /\ pipe = [NewPipe EXCEPT !.phase = "direct"]
    /\ results = [r \in 1..2 |-> <<>>]
    /\ calls = <<>>
    /\ files = [tmp |-> NoFile, final |-> PreviousArtifact]
    /\ entropy = 0
    /\ xform = NoTransform

InitClient ==
    /\ BackendIdle
    /\ movers = NoMovers
    /\ visualizer = NoVisualizer
    /\ filters = NoFilters
    /\ \/ \E module \in {"legacy", "current"} : \E baseUrl \in BOOLEAN :
          \E fn \in DataFunctions : \E params \in ParamsOf(fn) :
              \/ /\ module = "current" /\ ~baseUrl /\ fn = "getSimulations"
                 /\ \E mc \in MonteCarloFiles :
                        client = NewClientCall(module, baseUrl, fn, params, mc)
              \/ /\ ~(module = "current" /\ ~baseUrl /\ fn = "getSimulations")
                 /\ client = NewClientCall(module, baseUrl, fn, params, NoMonteCarlo)
       \/ client = NewClientCall("adapter", FALSE, "loadRegulationFactors", <<>>, NoMonteCarlo)

NextClient == FetchSettles \/ LocalSettles

SpecClient == InitClient /\ [][NextClient]_vars

\* C21: the future scenario's multipliers are power_ratio 3.33, aero_coeff
\* 0.70, weight_ratio 0.962, fuel_flow_ratio 0.75 and tire_grip_ratio 0.94,
\* and the dashboard's regulation features carry these multipliers: the
\* factors the data adapter falls back to have impact multiplier - 1.
C21_OneMultiplierTable ==
    /\ FutureMultipliers[PowerRatio] = 3330
    /\ FutureMultipliers[AeroCoeff] = 700
    /\ FutureMultipliers[WeightRatio] = 962
    /\ FutureMultipliers[FuelFlowRatio] = 750
    /\ FutureMultipliers[TireGripRatio] = 940
    /\ (client.phase = "settled" /\ client.source = "fallback") =>
           \A i \in 1..Len(client.value) :
               client.value[i].id \in Range(RegulationColumns) =>
                   client.value[i].impact = FutureMultipliers[client.value[i].id] - 1000

\* C22: every data call of the API client (getTracks, getTrack,
\* getRegulationFactors, getTeamPerformance, getSimulations) whose request
\* fails, by a network error or by a non-OK status, resolves with mock data;
\* it never rejects.
C22_FailedRequestFallsBackToMock ==
    ( /\ client.phase = "settled"
      /\ client.module \in {"legacy", "current"}
      /\ client.fn \in DataFunctions
      /\ client.net \in {"status", "network"} )
        => /\ client.outcome = "resolved"
           /\ client.source = "mock"

\* a getSimulations call answered from data the client holds itself
SimulationsFromOwnData ==
    /\ client.phase = "settled"
    /\ client.fn = "getSimulations"
    /\ client.outcome = "resolved"
    /\ client.source \in {"mock", "local"}

\* C26: getSimulations called with both season and trackId returns only
\* simulations of the requested track and of the requested season.
C26_BothFiltersApplied ==
    ( /\ SimulationsFromOwnData
      /\ "season" \in DOMAIN client.params
      /\ "trackId" \in DOMAIN client.params )
        => \A i \in 1..Len(client.value) :
               /\ client.value[i].trackId = client.params.trackId
               /\ client.value[i].season = client.params.season

\* C30: in local-data mode every simulation returned by getSimulations has at
\* most 5 results, with positions 1..k in list order, points that never
\* increase with position, gap 0 at position 1 and gaps that never decrease
\* with position.
C30_LocalResultsOrdered ==
    ( /\ SimulationsFromOwnData
      /\ client.source = "local" )
        => \A i \in 1..Len(client.value) :
               LET res == client.value[i].results
               IN  /\ Len(res) <= 5
                   /\ \A p \in 1..Len(res) : res[p].position = p
                   /\ Len(res) > 0 => res[1].gap = 0
                   /\ \A p, q \in 1..Len(res) :
                          p < q => /\ res[p].points >= res[q].points
                                   /\ res[p].gap <= res[q].gap

\* a race of more than five drivers, out of order in the file, is returned
\* with five results and a last gap above 0
C30_Witness ==
    /\ SimulationsFromOwnData
    /\ client.source = "local"
    /\ \E i \in 1..Len(client.value) :
           LET res == client.value[i].results
               cur == client.monteCarlo[client.value[i].id].current
           IN  /\ Len(cur) > 5
               /\ cur[1].mean > cur[Len(cur)].mean
               /\ Len(res) = 5
               /\ res[5].gap > res[2].gap
               /\ res[2].gap > 0

-----------------------------------------------------------------------------
(* TopMoversTable (frontend/src/components/TopMoversTable.tsx): the lists  *)
(* computed by its useMemo from monte_carlo_results.json and topCount.     *)

\* number of drivers of the first race
MoversDrivers == 3

\* monteCarloData[raceKey].current[driver]?.mean || 0
MeanOrZero(entries, driver) ==
    IF \E i \in 1..Len(entries) : entries[i].driverName = driver
    THEN LET i == CHOOSE k \in 1..Len(entries) : entries[k].driverName = driver
         IN  entries[i].mean
    ELSE 0

\* the reduce over raceKeys: the sum of future - current, from race index on
RECURSIVE TotalChange(_, _, _)
TotalChange(data, driver, index) ==
    IF index > Len(data) THEN 0
    ELSE MeanOrZero(data[index]["2026"], driver)
             - MeanOrZero(data[index]["current"], driver)
             + TotalChange(data, driver, index + 1)

\* changes: one item per driver of the first race, change = total / races
Changes(data) ==
    LET drivers == data[1]["current"]
    IN  [i \in 1..Len(drivers) |->
            [ driver |-> drivers[i].driverName,
              change |-> Rat(TotalChange(data, drivers[i].driverName, 1), Len(data)) ]]

\* Array.prototype.sort is stable; the comparators are b.change - a.change
\* and a.change - b.change
RECURSIVE InsertDescending(_, _)
InsertDescending(x, s) ==
    IF s = <<>> THEN <<x>>
    ELSE IF RLeq(Head(s).change, x.change) THEN <<x>> \o s
    ELSE <<Head(s)>> \o InsertDescending(x, Tail(s))
RECURSIVE SortDescending(_)
SortDescending(s) ==
    IF s = <<>> THEN <<>> ELSE InsertDescending(Head(s), SortDescending(Tail(s)))
RECURSIVE InsertAscending(_, _)
InsertAscending(x, s) ==
    IF s = <<>> THEN <<x>>
    ELSE IF RLeq(x.change, Head(s).change) THEN <<x>> \o s
    ELSE <<Head(s)>> \o InsertAscending(x, Tail(s))
RECURSIVE SortAscending(_)
SortAscending(s) ==
    IF s = <<>> THEN <<>> ELSE InsertAscending(Head(s), SortAscending(Tail(s)))

\* .slice(0, topCount)
SliceTop(s, topCount) == IF Len(s) <= topCount THEN s ELSE SubSeq(s, 1, topCount)

\* the useMemo body: changes is sorted in place twice, improvers first
TopMovers(data, topCount) ==
    LET sortedForImprovers == SortDescending(Changes(data))
        sortedForDecliners == SortAscending(sortedForImprovers)
    IN  [ improvers |-> SliceTop(sortedForImprovers, topCount),
          decliners |-> SliceTop(sortedForDecliners, topCount) ]

\* the component is rendered
RenderMovers ==
    /\ movers.phase = "mounted"
    /\ LET lists == TopMovers(movers.monteCarloData, movers.topCount)
       IN  movers' = [movers EXCEPT !.phase = "rendered",
                                    !.changes = Changes(movers.monteCarloData),
                                    !.improvers = lists.improvers,
                                    !.decliners = lists.decliners]
    /\ UNCHANGED <<model, config, xform, call, predictorRaised>>
    /\ UNCHANGED <<client, visualizer, filters>>
    /\ UNCHANGED batch

\* the props of the component: two races, the second may lack the last driver
MoversMeans == {1 * Unit, 2 * Unit}
MoversEntries(means) ==
    [i \in 1..Len(means) |-> [driverName |-> DriverName(i), mean |-> means[i]]]
MoversRace(current, future) ==
    ("current" :> MoversEntries(current)) @@ ("2026" :> MoversEntries(future))
MoversRaces ==
    { MoversRace(cur, fut) : cur, fut \in [1..MoversDrivers -> MoversMeans] }
MoversShortRaces ==
    { MoversRace(cur, fut) : cur, fut \in [1..(MoversDrivers - 1) -> MoversMeans] }
MoversData ==
    { <<first, second>> : first \in MoversRaces, second \in MoversShortRaces }
        \cup { <<first, first>> : first \in MoversRaces }
NewMovers(data, topCount) ==
    [ phase |-> "mounted", monteCarloData |-> data, topCount |-> topCount,
      changes |-> <<>>, improvers |-> <<>>, decliners |-> <<>> ]

InitMovers ==
    /\ BackendIdle
    /\ client = NoClient
    /\ visualizer = NoVisualizer
    /\ filters = NoFilters
    /\ \E data \in MoversData : \E topCount \in {1, 2, 5} :
           movers = NewMovers(data, topCount)

NextMovers == RenderMovers

SpecMovers == InitMovers /\ [][NextMovers]_vars

\* C23: Top Improvers holds the topCount drivers with the most negative
\* average (2026 mean - current mean) change, most negative first, and Top
\* Decliners holds those with the most positive change, most positive first.
C23_ImproversHaveMostNegativeChange ==
    movers.phase = "rendered" =>
        LET n == Len(movers.changes)
            k == IF movers.topCount < n THEN movers.topCount ELSE n
            Listed(list) == {list[i].driver : i \in 1..Len(list)}
        IN  /\ Len(movers.improvers) = k
            /\ Len(movers.decliners) = k
            /\ \A i, j \in 1..k :
                   i < j => /\ RLeq(movers.improvers[i].change, movers.improvers[j].change)
                            /\ RLeq(movers.decliners[j].change, movers.decliners[i].change)
            /\ \A i \in 1..k : \A c \in 1..n :
                   /\ movers.changes[c].driver \notin Listed(movers.improvers)
                          => RLeq(movers.improvers[i].change, movers.changes[c].change)
                   /\ movers.changes[c].driver \notin Listed(movers.decliners)
                          => RLeq(movers.changes[c].change, movers.decliners[i].change)

-----------------------------------------------------------------------------
(* F1TrackVisualization (frontend/src/components/TrackVisualizer.tsx and   *)
(* its longer form in part_010): the effect that loads the data of the     *)
(* trackId prop.  A missing key (undefined) is the empty string.           *)

\* how many times the trackId prop changes
MaxTrackChanges == 2

\* the component's own SIMULATION_MAPPING: the entries of the tracks used here
TrackSimulationMapping == [monza |-> "2022_R16", monaco |-> "2022_R08"]
MappedKey(trackId) ==
    IF trackId \in DOMAIN TrackSimulationMapping
    THEN TrackSimulationMapping[trackId] ELSE ""

\* AVAILABLE_SIM_KEYS.has(key); available lists the keys in the set's order
Has(available, key) == \E i \in 1..Len(available) : available[i] = key

\* findAvailableSimKey(trackId, preferredKey)
FindAvailableSimKey(available, trackId, preferredKey) ==
    LET fallbackKey == MappedKey(trackId)
        firstAvailable == IF available = <<>> THEN "" ELSE available[1]
    IN  IF preferredKey # "" /\ Has(available, preferredKey) THEN preferredKey
        ELSE IF fallbackKey # "" /\ Has(available, fallbackKey) THEN fallbackKey
        ELSE IF preferredKey # "" THEN preferredKey
        ELSE IF firstAvailable # "" THEN firstAvailable
        ELSE "2022_R01"

\* the content of track_data_<trackId>.json and the message of a failed load
TrackDataOf(trackId) == [file |-> trackId]
ErrorOf(trackId) == <<"Track data not available for", trackId>>

\* simData: the sector analysis is loaded when the file of simKey exists
SimDataOf(available, simKey) ==
    [ overtaking |-> <<"overtaking", simKey>>,
      analysis   |-> IF Has(available, simKey) THEN <<"analysis", simKey>> ELSE Null ]

\* the component mounted with trackId: the effect has run setError(null) and
\* started the first load
NewVisualizer(extended, trackFiles, available, trackId) ==
    [ phase      |-> "mounted",
      extended   |-> extended,    \* the form of part_010, which also loads simData
      files      |-> trackFiles,  \* the trackIds with a track_data file
      available  |-> available,   \* AVAILABLE_SIM_KEYS
      trackId    |-> trackId,
      trackData  |-> Null,
      simData    |-> Null,
      error      |-> Null,
      loads      |-> <<[trackId |-> trackId, stage |-> "import", simKey |-> ""]>>,
      changes    |-> 0,
      overlapped |-> FALSE ]      \* a change came while a load was in flight

InFlight(v) == {i \in 1..Len(v.loads) : v.loads[i].stage # "done"}

\* the parent passes another trackId: the effect runs again, sets error to
\* null and starts a load; nothing is done about the loads in flight
ChangeTrack ==
    /\ visualizer.phase = "mounted"
    /\ visualizer.changes < MaxTrackChanges
    /\ \E t \in {"monza", "monaco", "imola"} :
           /\ t # visualizer.trackId
           /\ visualizer' =
                  [visualizer EXCEPT
                      !.trackId = t,
                      !.error = Null,
                      !.loads = Append(@, [trackId |-> t, stage |-> "import", simKey |-> ""]),
                      !.changes = @ + 1,
                      !.overlapped = @ \/ InFlight(visualizer) # {}]
    /\ UNCHANGED <<model, config, xform, call, predictorRaised>>
    /\ UNCHANGED <<client, movers, filters>>
    /\ UNCHANGED batch

\* the import of a load's track data settles: a failure sets the error; a
\* success sets trackData, or in the longer form moves on to the simulation
\* files
ImportSettles ==
    /\ visualizer.phase = "mounted"
    /\ \E i \in InFlight(visualizer) :
           LET load == visualizer.loads[i]
           IN  /\ load.stage = "import"
               /\ visualizer' =
                      IF load.trackId \notin visualizer.files
                      THEN [visualizer EXCEPT !.error = ErrorOf(load.trackId),
                                              !.loads[i].stage = "done"]
                      ELSE IF visualizer.extended
                      THEN [visualizer EXCEPT
                               !.loads[i].stage = "analysis",
                               !.loads[i].simKey =
                                   FindAvailableSimKey(visualizer.available,
                                       load.trackId, MappedKey(load.trackId))]
                      ELSE [visualizer EXCEPT !.trackData = TrackDataOf(load.trackId),
                                              !.loads[i].stage = "done"]
    /\ UNCHANGED <<model, config, xform, call, predictorRaised>>
    /\ UNCHANGED <<client, movers, filters>>
    /\ UNCHANGED batch

\* the imports of the simulation files of a load settle: trackData and
\* simData are set
AnalysisSettles ==
    /\ visualizer.phase = "mounted"
    /\ \E i \in InFlight(visualizer) :
           LET load == visualizer.loads[i]
           IN  /\ load.stage = "analysis"
               /\ visualizer' =
                      [visualizer EXCEPT
                          !.trackData = TrackDataOf(load.trackId),
                          !.simData = SimDataOf(visualizer.available, load.simKey),
                          !.loads[i].stage = "done"]
    /\ UNCHANGED <<model, config, xform, call, predictorRaised>>
    /\ UNCHANGED <<client, movers, filters>>
    /\ UNCHANGED batch

\* the sets of sector-analysis files, in the order of the glob
AvailableKeyLists ==
    { <<>>, <<"2022_R08">>, <<"2022_R16">>, <<"2023_R08">>,
      <<"2022_R08", "2022_R16">>, <<"2022_R16", "2023_R08">> }

InitVisualizer ==
    /\ BackendIdle
    /\ client = NoClient
    /\ movers = NoMovers
    /\ filters = NoFilters
    /\ \E extended \in BOOLEAN : \E trackFiles \in SUBSET {"monza", "monaco"} :
       \E available \in AvailableKeyLists : \E t \in {"monza", "monaco"} :
           visualizer = NewVisualizer(extended, trackFiles, available, t)

NextVisualizer == ChangeTrack \/ ImportSettles \/ AnalysisSettles

SpecVisualizer == InitVisualizer /\ [][NextVisualizer]_vars

\* C27: when trackId changed while a load was in flight, then once all loads
\* have settled the displayed trackData and error are those of the latest
\* trackId, whichever load finished last.
C27_LatestTrackDisplayed ==
    ( /\ visualizer.phase = "mounted"
      /\ visualizer.overlapped
      /\ InFlight(visualizer) = {} )
        => IF visualizer.trackId \in visualizer.files
           THEN /\ visualizer.error = Null
                /\ visualizer.trackData = TrackDataOf(visualizer.trackId)
           ELSE visualizer.error = ErrorOf(visualizer.trackId)

\* C28: whenever at least one sector-analysis key is available, the key
\* findAvailableSimKey returned to a load is in the available set, and it is
\* the preferred key when that one is available.
C28_ReturnedKeyIsAvailable ==
    visualizer.phase = "mounted" =>
        \A i \in 1..Len(visualizer.loads) :
            ( /\ visualizer.loads[i].simKey # ""
              /\ visualizer.available # <<>> )
                => /\ Has(visualizer.available, visualizer.loads[i].simKey)
                   /\ Has(visualizer.available, MappedKey(visualizer.loads[i].trackId))
                          => visualizer.loads[i].simKey = MappedKey(visualizer.loads[i].trackId)

-----------------------------------------------------------------------------
(* useFilterStore (frontend/src/store/useFilterStore.ts).  null in a       *)
(* string | null field is the string "null".                               *)

NullId == "null"

\* the state the store is created with
InitialFilters ==
    [selectedSeason |-> 2026, selectedTrack |-> NullId, selectedTeam |-> NullId]

\* zustand's set(partial): the fields of partial are merged into the state
SetStateOntoInitial(state, partial) ==
    [k \in DOMAIN state |->
        IF k \in DOMAIN partial THEN partial[k] ELSE InitialFilters[k]]
SetState(state, partial) ==
    [k \in DOMAIN state |-> IF k \in DOMAIN partial THEN partial[k] ELSE state[k]]

\* the store after a call; before and last record the call for the properties
AfterCall(name, partial) ==
    [ phase  |-> "created",
      state  |-> SetState(filters.state, partial),
      before |-> filters.state,
      last   |-> name,
      given  |-> partial ]

SetSelectedSeason ==
    /\ filters.phase = "created"
    /\ \E season \in {2024, 2025, 2026} :
           filters' = AfterCall("setSelectedSeason", [selectedSeason |-> season])
    /\ UNCHANGED <<model, config, xform, call, predictorRaised>>
    /\ UNCHANGED <<client, movers, visualizer>>
    /\ UNCHANGED batch

SetSelectedTrack ==
    /\ filters.phase = "created"
    /\ \E trackId \in {NullId, "monaco", "monza"} :
           filters' = AfterCall("setSelectedTrack", [selectedTrack |-> trackId])
    /\ UNCHANGED <<model, config, xform, call, predictorRaised>>
    /\ UNCHANGED <<client, movers, visualizer>>
    /\ UNCHANGED batch

SetSelectedTeam ==
    /\ filters.phase = "created"
    /\ \E teamId \in {NullId, "ferrari", "mclaren"} :
           filters' = AfterCall("setSelectedTeam", [selectedTeam |-> teamId])
    /\ UNCHANGED <<model, config, xform, call, predictorRaised>>
    /\ UNCHANGED <<client, movers, visualizer>>
    /\ UNCHANGED batch

ResetFilters ==
    /\ filters.phase = "created"
    /\ filters' = AfterCall("resetFilters",
                      [selectedSeason |-> 2026, selectedTrack |-> NullId,
                       selectedTeam |-> NullId])
    /\ UNCHANGED <<model, config, xform, call, predictorRaised>>
    /\ UNCHANGED <<client, movers, visualizer>>
    /\ UNCHANGED batch

InitFilters ==
    /\ BackendIdle
    /\ client = NoClient
    /\ movers = NoMovers
    /\ visualizer = NoVisualizer
    /\ filters = [ phase |-> "created", state |-> InitialFilters,
                   before |-> InitialFilters, last |-> "create", given |-> <<>> ]

NextFilters ==
    SetSelectedSeason \/ SetSelectedTrack \/ SetSelectedTeam \/ ResetFilters

SpecFilters == InitFilters /\ [][NextFilters]_vars

\* C29: each of setSelectedSeason, setSelectedTrack and setSelectedTeam sets
\* its own field to the given value and leaves the other two as they were,
\* and resetFilters, from any state reached by setter calls, restores
\* selectedSeason 2026, selectedTrack null and selectedTeam null.
C29_SettersKeepOtherFields ==
    filters.phase = "created" =>
        /\ filters.last \in {"setSelectedSeason", "setSelectedTrack", "setSelectedTeam"} =>
               \A k \in DOMAIN filters.state :
                   filters.state[k] = IF k \in DOMAIN filters.given
                                      THEN filters.given[k] ELSE filters.before[k]
        /\ filters.last = "setSelectedSeason" => DOMAIN filters.given = {"selectedSeason"}
        /\ filters.last = "setSelectedTrack" => DOMAIN filters.given = {"selectedTrack"}
        /\ filters.last = "setSelectedTeam" => DOMAIN filters.given = {"selectedTeam"}
        /\ filters.last = "resetFilters" =>
               /\ filters.state.selectedSeason = 2026
               /\ filters.state.selectedTrack = NullId
               /\ filters.state.selectedTeam = NullId

\* resetFilters called on a store in which setter calls have moved every
\* field away from its initial value
C29_Witness ==
    /\ filters.phase = "created"
    /\ filters.last = "resetFilters"
    /\ \A k \in DOMAIN InitialFilters : filters.before[k] # InitialFilters[k]

-----------------------------------------------------------------------------
\* the state of the generator when the last draw of a direct call began
RngBeforeLastDraw ==
    RngAt(config.random_seed, call.drawn - DrawsPerPerturb(Len(SelectedAtCall)))

\* the factor, in 1/100, of row r in the last draw: 1 + the r-th value of
\* the draw's form noise vector
FormFactor(r) ==
    100 + NormalOf(RngAt(RngBeforeLastDraw, r), config.driver_form_sigma)

\* C24: within one draw all recent-form columns of an entity are multiplied
\* by one and the same factor, the factor of entity r is made from the r-th
\* value of the draw's noise vector, and with form sigma 0 every form column
\* keeps its input value.
C24_OneFormFactorPerRow ==
    (call.predicted > 0 /\ pipe.phase = "direct") =>
        \A r \in 1..Len(call.perturbed) : \A i \in 1..Len(form_cols) :
            LET c == form_cols[i]
            IN  /\ call.perturbed[r][c] = (SelectedAtCall[r][c] * FormFactor(r)) \div 100
                /\ config.driver_form_sigma = 0 =>
                       call.perturbed[r][c] = SelectedAtCall[r][c]

\* a draw on several form columns in which two entities got different
\* factors and an entity's form columns changed
C24_Witness ==
    /\ call.predicted > 0
    /\ pipe.phase = "direct"
    /\ Len(form_cols) >= 2
    /\ config.driver_form_sigma > 0
    /\ Len(call.perturbed) >= 2
    /\ FormFactor(1) # FormFactor(2)
    /\ \E r \in 1..Len(call.perturbed) :
           \A i \in 1..Len(form_cols) :
               call.perturbed[r][form_cols[i]] # SelectedAtCall[r][form_cols[i]]

\* a draw with form sigma 0 on a frame with form values other than 0
C24_WitnessZeroSigma ==
    /\ call.predicted > 0
    /\ pipe.phase = "direct"
    /\ config.driver_form_sigma = 0
    /\ \E r \in 1..Len(call.perturbed) :
           \A i \in 1..Len(form_cols) : call.perturbed[r][form_cols[i]] # 0

\* C25: a call that returns gives exactly one distribution per entity id, the
\* i-th id summarising the i-th row of the feature subset over exactly
\* n_draws values; a call whose id list and feature subset differ in length,
\* or whose ids repeat, does not return.
C25_OneDistributionPerEntity ==
    call.phase = "returned" =>
        LET ids == call.driver_names
        IN  /\ Len(ids) = Len(call.features)
            /\ \A i, j \in 1..Len(ids) : i # j => ids[i] # ids[j]
            /\ DOMAIN call.stats = {ids[i] : i \in 1..Len(ids)}
            /\ Len(call.predictions) = call.n_sims
            /\ \A i \in 1..Len(ids) :
                   call.stats[ids[i]] = DriverStats(Column(call.predictions, i))

=============================================================================
